---- MODULE Spec2Model ----
(***************************************************************************)
(* State-machine model of the tildeath narrative engine:                   *)
(*   StoryEngine     (engine/story_engine.py)                              *)
(*   TruthTracker    (engine/truth_tracker.py)                             *)
(*   EndingsManager  (engine/endings.py)                                   *)
(*   MutationManager (engine/mutations.py)                                 *)
(*   SessionManager  (engine/session.py)                                   *)
(*   AIAdapter       (engine/ai_adapter.py)                                *)
(*   Game            (main.py)                                             *)
(* Every component keeps the field names of its Python class.  A text is   *)
(* modelled by the set of vocabulary phrases that occur in it, which is    *)
(* all the engine ever reads of a text (substring membership tests).       *)
(***************************************************************************)
EXTENDS Integers, Sequences, FiniteSets, TLC

VARIABLES
    character_stats,    \* StoryEngine.character_stats
    hidden_stats,       \* StoryEngine.hidden_stats
    choice_count,       \* StoryEngine.choice_count
    choice_history,     \* StoryEngine.choice_history
    event_flags,        \* StoryEngine.event_flags
    instability_level,  \* StoryEngine.instability_level
    last_danger_level,  \* StoryEngine.last_danger_level
    revelation_level,           \* TruthTracker.revelation_level
    triggers_found,             \* TruthTracker.triggers_found
    am_invocations,             \* TruthTracker.am_invocations
    choice_pattern_buffer,      \* TruthTracker.choice_pattern_buffer
    session_milestone_reached,  \* TruthTracker.session_milestone_reached
    time_milestone_reached,     \* TruthTracker.time_milestone_reached
    elapsed,            \* datetime.now() - session_start, in hundredths of a minute
    death_cause,        \* EndingsManager.death_cause
    warned_about_health,\* EndingsManager.warned_about_health
    active_mutations,   \* MutationManager.active_mutations
    mutation_history,   \* MutationManager.mutation_history
    cooldown,           \* MutationManager.cooldown
    combo_active,       \* MutationManager.combo_active
    ghost_file,         \* the .ghost_memory file on disk
    ghost_memory,       \* SessionManager.ghost_memory
    run_session_count,  \* session_count of Game.run
    ending,             \* the ending Game.run got from check_for_ending
    opening,            \* the scene Game.run shows on the turn (opening = next_scene)
    pc,                 \* the position of Game.__init__ / Game.run
    call,               \* the most recent operation: name, inputs, pre-state, result
    nops                \* number of operations performed so far

storyVars == <<character_stats, hidden_stats, choice_count, choice_history,
               event_flags, instability_level, last_danger_level>>

trackerVars == <<revelation_level, triggers_found, am_invocations,
                 choice_pattern_buffer, session_milestone_reached,
                 time_milestone_reached>>

truthVars == <<trackerVars, elapsed>>

endingVars == <<death_cause, warned_about_health>>

mutationVars == <<active_mutations, mutation_history, cooldown, combo_active>>

hostVars == <<ghost_file, ghost_memory, run_session_count, ending, opening, pc>>

vars == <<storyVars, truthVars, endingVars, mutationVars, hostVars, call, nops>>

----------------------------------------------------------------------------
(* Bounds of the exploration *)

\* operations per explored run
MaxOps == 1

\* TruthTracker calls per explored run
MaxTruthOps == 3

\* check_mutation calls per explored run
MaxMutationCalls == 3

\* magnitude of the large deltas handed to the stat setters
MaxDelta == 200

\* check_mutation calls of one SpecRecurrence run
MaxRecurrenceCalls == 7

\* Operations of one SpecProgress run
MaxProgressOps == 2

----------------------------------------------------------------------------
(* config/settings.py *)

DEFAULT_CHARACTER_STATS ==
    [health |-> 150, max_health |-> 150, strength |-> 5, speed |-> 5, intelligence |-> 5]

DEFAULT_HIDDEN_STATS ==
    [courage |-> 6, sanity |-> 10, curiosity |-> 6, trust |-> 6]

instability_choice_threshold == 5

CRITICAL_EVENTS ==
    {"character_death", "artifact_discovery", "mirror_encounter",
     "reality_break", "narrator_awareness"}

----------------------------------------------------------------------------
(* Helpers *)

Min(a, b) == IF a < b THEN a ELSE b

Max(a, b) == IF a > b THEN a ELSE b

SeqToSet(s) == {s[i] : i \in 1..Len(s)}

\* Python's `x in list`
InList(x, s) == \E i \in 1..Len(s) : s[i] = x

\* Number of positions of the list s whose element is in the set S
RECURSIVE CountIn(_, _)
CountIn(s, S) ==
    IF s = <<>> THEN 0
    ELSE (IF Head(s) \in S THEN 1 ELSE 0) + CountIn(Tail(s), S)

----------------------------------------------------------------------------
(* Texts.  A text is the set of phrases occurring in it; `word in text`    *)
(* is a substring test, so a phrase also brings in the words it contains.  *)

ContainedWords ==
    {<<"confront", "confront directly">>, <<"examine", "examine closely">>}

Occurs(word, text) ==
    \E p \in text : p = word \/ <<word, p>> \in ContainedWords

AnyOccurs(words, text) == \E w \in words : Occurs(w, text)

\* choice_text.lower(), on the phrases that are not lower case already
lower_phrase(p) ==
    CASE p = "ATTACK" -> "attack"
      [] p = "Look"   -> "look"
      [] p = "Obvious Trap" -> "obvious trap"
      [] OTHER        -> p

lower(choice_text) == {lower_phrase(p) : p \in choice_text}

extreme_keywords == {"attack", "charge", "confront directly", "fight"}

high_keywords == {"investigate", "touch", "open", "enter", "confront"}

medium_keywords == {"explore", "examine closely", "follow", "pursue"}

low_keywords == {"look", "listen", "observe", "cautious"}

trap_markers == {"obvious trap", "clearly dangerous", "suicide"}

\* The set of random outcomes of `random.random() < 0.015`, drawn only when
\* the text holds a trap marker.
TrapDraws(text) == IF AnyOccurs(trap_markers, text) THEN BOOLEAN ELSE {FALSE}

\* _assess_choice_danger with the high vocabulary tested before the extreme one
assess_choice_danger_high_first(text, trapRoll) ==
    IF AnyOccurs(trap_markers, text) /\ trapRoll THEN "instant_death"
    ELSE IF AnyOccurs(high_keywords, text) THEN "high"
    ELSE IF AnyOccurs(extreme_keywords, text) THEN "extreme"
    ELSE IF AnyOccurs(medium_keywords, text) THEN "medium"
    ELSE IF AnyOccurs(low_keywords, text) THEN "low"
    ELSE "none"

assess_choice_danger(text, trapRoll) ==
    IF AnyOccurs(trap_markers, text) /\ trapRoll THEN "instant_death"
    ELSE IF AnyOccurs(extreme_keywords, text) THEN "extreme"
    ELSE IF AnyOccurs(high_keywords, text) THEN "high"
    ELSE IF AnyOccurs(medium_keywords, text) THEN "medium"
    ELSE IF AnyOccurs(low_keywords, text) THEN "low"
    ELSE "none"

----------------------------------------------------------------------------
(* Stat model.  An engine value e is the record                            *)
(*   [cs |-> character_stats, hs |-> hidden_stats,                         *)
(*    ef |-> event_flags, il |-> instability_level]                        *)
(* threaded through the statements of a handler in program order.          *)

modify_hidden_stat(e, stat, change) ==
    IF stat \in DOMAIN e.hs
    THEN [e EXCEPT !.hs[stat] = Max(0, Min(10, e.hs[stat] + change))]
    ELSE e

\* _modify_character_stat with health capped at max_health but not floored
modify_character_stat_no_floor(e, stat, change) ==
    IF stat \in DOMAIN e.cs
    THEN IF stat = "health"
         THEN [e EXCEPT !.cs[stat] = Min(e.cs["max_health"], e.cs[stat] + change)]
         ELSE [e EXCEPT !.cs[stat] = Max(1, Min(10, e.cs[stat] + change))]
    ELSE e

modify_character_stat(e, stat, change) ==
    IF stat \in DOMAIN e.cs
    THEN IF stat = "health"
         THEN [e EXCEPT !.cs[stat] = Max(0, Min(e.cs["max_health"], e.cs[stat] + change))]
         ELSE [e EXCEPT !.cs[stat] = Max(1, Min(10, e.cs[stat] + change))]
    ELSE e

update_instability(e, cc) ==
    [e EXCEPT !.il = (cc \div instability_choice_threshold)
                     + (IF e.hs["sanity"] < 3 THEN 2 ELSE 0)
                     + (IF e.hs["trust"] < 2 THEN 1 ELSE 0)
                     + CountIn(e.ef, CRITICAL_EVENTS)]

\* trigger_event without the `not in self.event_flags` guard
trigger_event_in_unguarded(e, cc, event_name) ==
    update_instability([e EXCEPT !.ef = Append(e.ef, event_name)], cc)

trigger_event_in(e, cc, event_name) ==
    IF ~InList(event_name, e.ef)
    THEN update_instability([e EXCEPT !.ef = Append(e.ef, event_name)], cc)
    ELSE e

----------------------------------------------------------------------------
(* Consequence resolver *)

\* int(damage * progression_multiplier) for the multipliers 1.0, 1.2, 1.5
progression_multiplier_tenths(cc) ==
    IF cc > 20 THEN 15 ELSE IF cc > 10 THEN 12 ELSE 10

\* scaled without the progression multiplier
scaled_flat(damage, cc) == damage

scaled(damage, cc) == (damage * progression_multiplier_tenths(cc)) \div 10

\* The outcomes of random.randint(a, b) the exploration follows: every value
\* of a..b (W = "all"), the two extreme ones (W = "ends") or the lowest one
\* (W = "low").
RandInt(a, b, W) ==
    IF W = "all" THEN a..b ELSE IF W = "low" THEN {a} ELSE {a, b}

\* random.randint ranges of the tier damage
DamageDraws(danger, W) ==
    CASE danger = "extreme" -> RandInt(20, 30, W)
      [] danger = "high"    -> RandInt(15, 25, W)
      [] danger = "medium"  -> RandInt(10, 20, W)
      [] danger = "low"     -> RandInt(5, 10, W)
      [] OTHER              -> {0}

\* tier sanity deltas whose 'high' range is centred on 0
TierSanityDraws_centred(danger, W) ==
    CASE danger = "extreme" -> RandInt(-2, -1, W)
      [] danger = "high"    -> RandInt(-1, 1, W)
      [] OTHER              -> {0}

\* random.randint ranges of the tier sanity delta
TierSanityDraws(danger, W) ==
    CASE danger = "extreme" -> RandInt(-2, -1, W)
      [] danger = "high"    -> RandInt(-1, 0, W)
      [] OTHER              -> {0}

HorrorDraws(text, W) ==
    IF Occurs("horror", text) \/ Occurs("witness", text)
    THEN RandInt(-2, -1, W) ELSE {0}

\* the instant-death branch with the trap treated as a heavy blow
instant_death_consequence_as_damage(e, cc) ==
    trigger_event_in(modify_character_stat(e, "health", -100), cc,
                     "instant_death_trap")

\* the instant-death branch: health written directly, the event flagged
instant_death_consequence(e, cc) ==
    trigger_event_in([e EXCEPT !.cs["health"] = 0], cc, "instant_death_trap")

apply_consequences(e, cc, danger, text, r) ==
    IF danger = "instant_death"
    THEN instant_death_consequence(e, cc)
    ELSE
      LET e1 == CASE danger = "extreme" ->
                       modify_hidden_stat(
                           modify_character_stat(e, "health", -scaled(r.dmg, cc)),
                           "sanity", r.tsan)
                  [] danger = "high" ->
                       modify_hidden_stat(
                           modify_character_stat(e, "health", -scaled(r.dmg, cc)),
                           "sanity", r.tsan)
                  [] danger = "medium" ->
                       modify_character_stat(e, "health", -scaled(r.dmg, cc))
                  [] danger = "low" ->
                       modify_character_stat(e, "health",
                           -(IF cc > 10 THEN scaled(r.dmg, cc) ELSE r.dmg))
                  [] OTHER -> e
          e2 == IF Occurs("horror", text) \/ Occurs("witness", text)
                THEN modify_hidden_stat(e1, "sanity", r.hsan) ELSE e1
          e3 == IF Occurs("paranoid", text) \/ Occurs("suspicious", text)
                THEN modify_hidden_stat(e2, "sanity", -1) ELSE e2
      IN e3

courage_up_words == {"attack", "fight", "confront", "face", "charge"}

courage_down_words == {"flee", "hide", "retreat", "avoid", "run"}

sanity_words == {"look", "examine", "study", "observe", "stare"}

curiosity_words == {"open", "read", "touch", "take", "investigate"}

trust_up_words == {"listen", "follow", "trust", "believe", "accept"}

trust_down_words == {"ignore", "refuse", "doubt", "question", "reject"}

\* The random outcomes one _apply_choice_effects call consumes after the
\* trap roll; a draw the call does not make is fixed at 0 / FALSE.  `hit` is
\* 0 when random.random() < 0.15 fails, else the randint(-15, -5) drawn.
DrawSpace(text, danger, W) ==
    [dmg   : DamageDraws(danger, W),
     tsan  : TierSanityDraws(danger, W),
     hsan  : IF danger = "instant_death" THEN {0} ELSE HorrorDraws(text, W),
     cour  : IF AnyOccurs(courage_up_words, text) THEN RandInt(1, 2, W)
             ELSE IF AnyOccurs(courage_down_words, text) THEN RandInt(-2, -1, W)
             ELSE {0},
     body  : IF AnyOccurs(courage_up_words, text) THEN RandInt(-1, 1, W)
             ELSE IF AnyOccurs(courage_down_words, text) THEN RandInt(0, 1, W)
             ELSE {0},
     lsan  : IF AnyOccurs(sanity_words, text) THEN RandInt(-1, 0, W) ELSE {0},
     lcur  : IF AnyOccurs(sanity_words, text) THEN RandInt(1, 2, W) ELSE {0},
     ocur  : IF AnyOccurs(curiosity_words, text) THEN RandInt(1, 2, W) ELSE {0},
     otru  : IF AnyOccurs(curiosity_words, text) THEN RandInt(-1, 0, W) ELSE {0},
     tru   : IF AnyOccurs(trust_up_words, text) THEN RandInt(0, 2, W)
             ELSE IF AnyOccurs(trust_down_words, text) THEN RandInt(-2, 0, W)
             ELSE {0},
     icour : IF ~AnyOccurs(trust_up_words, text) /\ AnyOccurs(trust_down_words, text)
             THEN RandInt(0, 1, W) ELSE {0},
     drain : BOOLEAN,
     hit   : {0} \cup RandInt(-15, -5, W)]

apply_choice_effects(e, cc, danger, text, r) ==
    LET e0 == apply_consequences(e, cc, danger, text, r)
        e1 == IF AnyOccurs(courage_up_words, text)
              THEN modify_character_stat(
                       modify_hidden_stat(e0, "courage", r.cour), "strength", r.body)
              ELSE IF AnyOccurs(courage_down_words, text)
              THEN modify_character_stat(
                       modify_hidden_stat(e0, "courage", r.cour), "speed", r.body)
              ELSE e0
        e2 == IF AnyOccurs(sanity_words, text)
              THEN modify_hidden_stat(
                       modify_hidden_stat(e1, "sanity", r.lsan), "curiosity", r.lcur)
              ELSE e1
        e3 == IF AnyOccurs(curiosity_words, text)
              THEN modify_hidden_stat(
                       modify_hidden_stat(e2, "curiosity", r.ocur), "trust", r.otru)
              ELSE e2
        e4 == IF AnyOccurs(trust_up_words, text)
              THEN modify_hidden_stat(e3, "trust", r.tru)
              ELSE IF AnyOccurs(trust_down_words, text)
              THEN modify_hidden_stat(
                       modify_hidden_stat(e3, "trust", r.tru), "courage", r.icour)
              ELSE e3
        e5 == IF r.drain THEN modify_hidden_stat(e4, "sanity", -1) ELSE e4
        e6 == IF r.hit # 0 THEN modify_character_stat(e5, "health", r.hit) ELSE e5
    IN e6

----------------------------------------------------------------------------
(* Construction *)

NoCall == [op |-> "init"]

StoryInit ==
    /\ character_stats = DEFAULT_CHARACTER_STATS
    /\ hidden_stats = DEFAULT_HIDDEN_STATS
    /\ choice_count = 0
    /\ choice_history = <<>>
    /\ event_flags = <<>>
    /\ instability_level = 0
    /\ last_danger_level = "none"

TruthInit ==
    /\ revelation_level = 0
    /\ triggers_found = <<>>
    /\ am_invocations = 0
    /\ choice_pattern_buffer = <<>>
    /\ session_milestone_reached = FALSE
    /\ time_milestone_reached = FALSE
    /\ elapsed = 0

EndingsInit ==
    /\ death_cause = "None"
    /\ warned_about_health = FALSE

MutationInit ==
    /\ active_mutations = <<>>
    /\ mutation_history = <<>>
    /\ cooldown = 0
    /\ combo_active = "None"

\* A Python dict without keys
EmptyDict == <<>>

\* d.get(key, default)
dict_get(d, key, default) == IF key \in DOMAIN d THEN d[key] ELSE default

\* The components used on their own, outside a Game
NoHost ==
    /\ ghost_file = [state |-> "missing"]
    /\ ghost_memory = EmptyDict
    /\ run_session_count = 0
    /\ ending = "None"
    /\ opening = EmptyDict
    /\ pc = "none"

----------------------------------------------------------------------------
(* StoryEngine operations *)

Engine == [cs |-> character_stats, hs |-> hidden_stats,
           ef |-> event_flags, il |-> instability_level]

\* What an operation record keeps of the state the operation started from
Pre == [cs |-> character_stats, hs |-> hidden_stats, cc |-> choice_count,
        ef |-> event_flags, il |-> instability_level, hist |-> choice_history]

SetEngine(e) ==
    /\ character_stats' = e.cs
    /\ hidden_stats' = e.hs
    /\ event_flags' = e.ef
    /\ instability_level' = e.il

\* self.choice_history.append(choice_text), overwriting the newest entry
append_choice_overwrite(history, choice_text) ==
    IF history = <<>> THEN <<choice_text>>
    ELSE [history EXCEPT ![Len(history)] = choice_text]

append_choice(history, choice_text) == Append(history, choice_text)

\* `resolved` is the engine as _apply_consequences leaves it, before the
\* keyword effects and the random drains of the same call.
process_choice(choice_text, W) ==
    LET text == lower(choice_text) IN
    \E trapRoll \in TrapDraws(text) :
      LET cc     == choice_count + 1
          danger == assess_choice_danger(text, trapRoll)
      IN \E r \in DrawSpace(text, danger, W) :
           /\ choice_count' = cc
           /\ choice_history' = append_choice(choice_history, choice_text)
           /\ last_danger_level' = danger
           /\ SetEngine(update_instability(
                  apply_choice_effects(Engine, cc, danger, text, r), cc))
           /\ call' = [op |-> "process_choice", text |-> choice_text, pre |-> Pre,
                       hit |-> r.hit, drain |-> r.drain, roll |-> trapRoll,
                       resolved |-> apply_consequences(Engine, cc, danger, text, r)]

\* _assess_choice_danger called on its own on a lower-cased text
AssessChoiceDanger(text) ==
    \E trapRoll \in TrapDraws(text) :
      /\ UNCHANGED storyVars
      /\ call' = [op |-> "assess_choice_danger", text |-> text, pre |-> Pre,
                  roll |-> trapRoll, ret |-> assess_choice_danger(text, trapRoll)]

trigger_event(event_name) ==
    /\ SetEngine(trigger_event_in(Engine, choice_count, event_name))
    /\ UNCHANGED <<choice_count, choice_history, last_danger_level>>
    /\ call' = [op |-> "trigger_event", event |-> event_name, pre |-> Pre]

ModifyHiddenStat(stat, change) ==
    /\ SetEngine(modify_hidden_stat(Engine, stat, change))
    /\ UNCHANGED <<choice_count, choice_history, last_danger_level>>
    /\ call' = [op |-> "modify_hidden_stat", stat |-> stat, change |-> change,
                pre |-> Pre]

ModifyCharacterStat(stat, change) ==
    /\ SetEngine(modify_character_stat(Engine, stat, change))
    /\ UNCHANGED <<choice_count, choice_history, last_danger_level>>
    /\ call' = [op |-> "modify_character_stat", stat |-> stat, change |-> change,
                pre |-> Pre]

----------------------------------------------------------------------------
(* SpecStory: the StoryEngine operations in any order, from engine states  *)
(* the operations themselves produce.                                      *)

\* The texts offered to process_choice
Texts ==
    {{"wait"}, {"ATTACK"}, {"Look", "horror"}, {"open"},
     {"follow", "suspicious"}, {"obvious trap"}}

Deltas == {-MaxDelta, -1, 0, 1, MaxDelta}

EventNames == {"mirror_encounter", "reality_break", "door_opened"}

StartCounts == {0, 20}

StartHealths == {150, 30}

StartSanities == {10, 1}

StartFlags == {<<>>, <<"mirror_encounter">>}

\* k earlier choices of a text without any keyword
RECURSIVE Waits(_)
Waits(k) == IF k = 0 THEN <<>> ELSE Append(Waits(k - 1), {"wait"})

\* An engine after cc keyword-free choices whose random drains left the given
\* health and sanity, with the given events flagged.
EngineAfter(cc, health, sanity, flags) ==
    /\ character_stats = [DEFAULT_CHARACTER_STATS EXCEPT !["health"] = health]
    /\ hidden_stats = [DEFAULT_HIDDEN_STATS EXCEPT !["sanity"] = sanity]
    /\ choice_count = cc
    /\ choice_history = Waits(cc)
    /\ event_flags = flags
    /\ instability_level =
          update_instability([cs |-> DEFAULT_CHARACTER_STATS,
                              hs |-> [DEFAULT_HIDDEN_STATS EXCEPT !["sanity"] = sanity],
                              ef |-> flags, il |-> 0], cc).il
    /\ last_danger_level = "none"

InitStory ==
    /\ \E cc \in StartCounts, h \in StartHealths, s \in StartSanities,
          f \in StartFlags : EngineAfter(cc, h, s, f)
    /\ TruthInit /\ EndingsInit /\ MutationInit /\ NoHost
    /\ call = NoCall
    /\ nops = 0

Step == nops < MaxOps /\ nops' = nops + 1

StoryProcessChoice ==
    /\ Step
    /\ \E text \in Texts : process_choice(text, "ends")
    /\ UNCHANGED <<truthVars, endingVars, mutationVars, hostVars>>

StoryTriggerEvent ==
    /\ Step
    /\ \E ev \in EventNames : trigger_event(ev)
    /\ UNCHANGED <<truthVars, endingVars, mutationVars, hostVars>>

StoryModifyHiddenStat ==
    /\ Step
    /\ \E stat \in DOMAIN hidden_stats \cup {"luck"}, d \in Deltas :
           ModifyHiddenStat(stat, d)
    /\ UNCHANGED <<truthVars, endingVars, mutationVars, hostVars>>

StoryModifyCharacterStat ==
    /\ Step
    /\ \E stat \in DOMAIN character_stats \cup {"luck"}, d \in Deltas :
           ModifyCharacterStat(stat, d)
    /\ UNCHANGED <<truthVars, endingVars, mutationVars, hostVars>>

\* The lower-cased texts _assess_choice_danger is evaluated on
AssessTexts ==
    {lower(t) : t \in Texts} \cup
    {{"confront directly"}, {"fight", "look"}, {"examine closely", "listen"},
     {"open", "follow"}, {"clearly dangerous", "charge"}, {"suicide"}}

StoryAssessChoiceDanger ==
    /\ Step
    /\ \E text \in AssessTexts : AssessChoiceDanger(text)
    /\ UNCHANGED <<truthVars, endingVars, mutationVars, hostVars>>

NextStory ==
    \/ StoryProcessChoice
    \/ StoryAssessChoiceDanger
    \/ StoryTriggerEvent
    \/ StoryModifyHiddenStat
    \/ StoryModifyCharacterStat

SpecStory == InitStory /\ [][NextStory]_vars

----------------------------------------------------------------------------
(* SpecProgress: the two public operations of the StoryEngine,             *)
(* process_choice and trigger_event, in any order.                         *)

\* An engine after four choices of "open" whose draws each took 15 health,
\* 2 curiosity (capped at 10) and 1 trust, with no random drain.
EngineAfterOpens ==
    /\ character_stats = [DEFAULT_CHARACTER_STATS EXCEPT !["health"] = 90]
    /\ hidden_stats = [DEFAULT_HIDDEN_STATS EXCEPT !["curiosity"] = 10,
                                                   !["trust"] = 2]
    /\ choice_count = 4
    /\ choice_history = <<{"open"}, {"open"}, {"open"}, {"open"}>>
    /\ event_flags = <<>>
    /\ instability_level = 0
    /\ last_danger_level = "high"

InitProgress ==
    /\ \/ StoryInit
       \/ EngineAfterOpens
       \/ \E f \in StartFlags : EngineAfter(4, 150, 3, f)
    /\ TruthInit /\ EndingsInit /\ MutationInit /\ NoHost
    /\ call = NoCall
    /\ nops = 0

ProgressTexts == {{"wait"}, {"refuse"}, {"obvious trap"}}

ProgressStep == nops < MaxProgressOps /\ nops' = nops + 1

ProgressProcessChoice ==
    /\ ProgressStep
    /\ \E text \in ProgressTexts : process_choice(text, "ends")
    /\ UNCHANGED <<truthVars, endingVars, mutationVars, hostVars>>

ProgressTriggerEvent ==
    /\ ProgressStep
    /\ \E ev \in EventNames : trigger_event(ev)
    /\ UNCHANGED <<truthVars, endingVars, mutationVars, hostVars>>

NextProgress ==
    \/ ProgressProcessChoice
    \/ ProgressTriggerEvent

SpecProgress == InitProgress /\ [][NextProgress]_vars

----------------------------------------------------------------------------
(* SpecScenario: one choice processed at turn 25 from health 100, every    *)
(* random outcome followed.                                                *)

InitScenario ==
    /\ \E s \in 0..10 : EngineAfter(24, 100, s, <<>>)
    /\ TruthInit /\ EndingsInit /\ MutationInit /\ NoHost
    /\ call = NoCall
    /\ nops = 0

ScenarioTexts ==
    Texts \cup {{"confront directly", "horror"}, {"fight", "look"},
                {"charge", "suspicious"},
                {"obvious trap", "witness", "paranoid"}}

ScenarioProcessChoice ==
    /\ nops = 0 /\ nops' = 1
    /\ \E text \in ScenarioTexts : process_choice(text, "all")
    /\ UNCHANGED <<truthVars, endingVars, mutationVars, hostVars>>

NextScenario == ScenarioProcessChoice

SpecScenario == InitScenario /\ [][NextScenario]_vars

----------------------------------------------------------------------------
(* TruthTracker.  A tracker value t is the record                          *)
(*   [rev |-> revelation_level, trig |-> triggers_found,                   *)
(*    am |-> am_invocations, buf |-> choice_pattern_buffer,                *)
(*    sm |-> session_milestone_reached, tm |-> time_milestone_reached]     *)
(* and every operation yields [t |-> tracker after, ret |-> result,        *)
(* fired |-> id of the trigger it fired or "None"].                        *)

SACRED_NUMBER == 109

IMPOSSIBLE_STATE == [courage |-> 0, sanity |-> 0, curiosity |-> 10, trust |-> 0]

Tracker == [rev |-> revelation_level, trig |-> triggers_found,
            am |-> am_invocations, buf |-> choice_pattern_buffer,
            sm |-> session_milestone_reached, tm |-> time_milestone_reached]

SetTracker(t) ==
    /\ revelation_level' = t.rev
    /\ triggers_found' = t.trig
    /\ am_invocations' = t.am
    /\ choice_pattern_buffer' = t.buf
    /\ session_milestone_reached' = t.sm
    /\ time_milestone_reached' = t.tm

\* increase_revelation without the cap at 5
increase_revelation_uncapped(t, amount) == [t EXCEPT !.rev = t.rev + amount]

increase_revelation(t, amount) == [t EXCEPT !.rev = Min(5, t.rev + amount)]

\* `if id not in triggers_found: append(id); _increase_revelation(amount)`
fire(t, id, amount) ==
    increase_revelation([t EXCEPT !.trig = Append(t.trig, id)], amount)

\* check_impossible_state without the `not in triggers_found` test
check_impossible_state_refire(t, stats) ==
    IF stats = IMPOSSIBLE_STATE
    THEN [t |-> fire(t, "impossible_state", 2), ret |-> TRUE,
          fired |-> "impossible_state"]
    ELSE [t |-> t, ret |-> FALSE, fired |-> "None"]

check_impossible_state(t, stats) ==
    IF stats = IMPOSSIBLE_STATE /\ ~InList("impossible_state", t.trig)
    THEN [t |-> fire(t, "impossible_state", 2), ret |-> TRUE,
          fired |-> "impossible_state"]
    ELSE [t |-> t, ret |-> FALSE, fired |-> "None"]

check_session_milestone(t, session_count) ==
    IF session_count >= SACRED_NUMBER /\ ~t.sm
    THEN LET t1 == [t EXCEPT !.sm = TRUE]
         IN IF ~InList("109_milestone", t1.trig)
            THEN [t |-> fire(t1, "109_milestone", 3), ret |-> TRUE,
                  fired |-> "109_milestone"]
            ELSE [t |-> t1, ret |-> FALSE, fired |-> "None"]
    ELSE [t |-> t, ret |-> FALSE, fired |-> "None"]

\* minutes >= 109 and minutes < 109.1, with the duration in hundredths of a minute
check_time_milestone(t, duration) ==
    IF t.tm THEN [t |-> t, ret |-> FALSE, fired |-> "None"]
    ELSE IF duration >= SACRED_NUMBER * 100 /\ duration < SACRED_NUMBER * 100 + 10
    THEN LET t1 == [t EXCEPT !.tm = TRUE]
         IN IF ~InList("time_109", t1.trig)
            THEN [t |-> fire(t1, "time_109", 2), ret |-> TRUE, fired |-> "time_109"]
            ELSE [t |-> t1, ret |-> FALSE, fired |-> "None"]
    ELSE [t |-> t, ret |-> FALSE, fired |-> "None"]

\* input_text.lower().strip() of the inputs the exploration types
lower_strip(input_text) ==
    CASE input_text = "AM"               -> "am"
      [] input_text = " Ted "            -> "ted"
      [] input_text = "I have No Mouth"  -> "i have no mouth"
      [] input_text = "am i dreaming"    -> "am i dreaming"
      [] OTHER                           -> input_text

\* 'no mouth' in input_lower
HasNoMouth(input_lower) == input_lower \in {"i have no mouth", "no mouth"}

\* secret_branch without the `not in triggers_found` test
secret_branch_refire(t, id, amount, response) ==
    [t |-> fire([t EXCEPT !.am = t.am + 1], id, amount), ret |-> response,
     fired |-> id]

secret_branch(t, id, amount, response) ==
    LET t1 == [t EXCEPT !.am = t.am + 1]
    IN IF ~InList(id, t1.trig)
       THEN [t |-> fire(t1, id, amount), ret |-> response, fired |-> id]
       ELSE [t |-> t1, ret |-> response, fired |-> "None"]

process_secret_input(t, input_text, sanity, cc) ==
    IF cc < 20 THEN [t |-> t, ret |-> "None", fired |-> "None"]
    ELSE IF sanity >= 5 THEN [t |-> t, ret |-> "None", fired |-> "None"]
    ELSE LET input_lower == lower_strip(input_text)
         IN IF input_lower = "am"
            THEN secret_branch(t, "am_invoked", 2, "am_response")
            ELSE IF input_lower = "ted"
            THEN secret_branch(t, "ted_remembered", 2, "ted_response")
            ELSE IF HasNoMouth(input_lower)
            THEN secret_branch(t, "phrase_remembered", 3, "phrase_response")
            ELSE [t |-> t, ret |-> "None", fired |-> "None"]

check_pattern(buf, pattern, repetitions) ==
    IF Len(buf) < Len(pattern) * repetitions THEN FALSE
    ELSE Cardinality({i \in 1..(Len(buf) - Len(pattern) + 1) :
                         SubSeq(buf, i, i + Len(pattern) - 1) = pattern})
             >= repetitions

\* detect_choice_pattern on a window that is never trimmed
detect_choice_pattern_untrimmed(t, choice_number) ==
    LET b  == Append(t.buf, choice_number)
        t1 == [t EXCEPT !.buf = b]
    IN IF Len(b) >= 6
       THEN IF check_pattern(b, <<1, 13>>, 3) /\ ~InList("pattern_am", t1.trig)
            THEN [t |-> fire(t1, "pattern_am", 2), ret |-> "spell_something",
                  fired |-> "pattern_am"]
            ELSE IF check_pattern(b, <<20, 5, 4>>, 3) /\ ~InList("pattern_ted", t1.trig)
            THEN [t |-> fire(t1, "pattern_ted", 2), ret |-> "names_have_power",
                  fired |-> "pattern_ted"]
            ELSE IF (check_pattern(b, <<1, 0, 9>>, 3) \/ check_pattern(b, <<10, 9>>, 3))
                    /\ ~InList("pattern_109", t1.trig)
            THEN [t |-> fire(t1, "pattern_109", 1), ret |-> "back_to_109",
                  fired |-> "pattern_109"]
            ELSE [t |-> t1, ret |-> "None", fired |-> "None"]
       ELSE [t |-> t1, ret |-> "None", fired |-> "None"]

detect_choice_pattern(t, choice_number) ==
    LET b0 == Append(t.buf, choice_number)
        b  == IF Len(b0) > 20 THEN Tail(b0) ELSE b0
        t1 == [t EXCEPT !.buf = b]
    IN IF Len(b) >= 6
       THEN IF check_pattern(b, <<1, 13>>, 3) /\ ~InList("pattern_am", t1.trig)
            THEN [t |-> fire(t1, "pattern_am", 2), ret |-> "spell_something",
                  fired |-> "pattern_am"]
            ELSE IF check_pattern(b, <<20, 5, 4>>, 3) /\ ~InList("pattern_ted", t1.trig)
            THEN [t |-> fire(t1, "pattern_ted", 2), ret |-> "names_have_power",
                  fired |-> "pattern_ted"]
            ELSE IF (check_pattern(b, <<1, 0, 9>>, 3) \/ check_pattern(b, <<10, 9>>, 3))
                    /\ ~InList("pattern_109", t1.trig)
            THEN [t |-> fire(t1, "pattern_109", 1), ret |-> "back_to_109",
                  fired |-> "pattern_109"]
            ELSE [t |-> t1, ret |-> "None", fired |-> "None"]
       ELSE [t |-> t1, ret |-> "None", fired |-> "None"]

\* should_add_breadcrumbs; draw is the outcome of
\* random.random() < 0.005 + revelation_level * 0.002
should_add_breadcrumbs(t, cc, sanity, draw) ==
    [t |-> t,
     ret |-> IF cc < 20 THEN FALSE ELSE IF sanity >= 7 THEN FALSE ELSE draw,
     fired |-> "None"]

----------------------------------------------------------------------------
(* SpecTruth: the TruthTracker operations of one session in any order      *)

TruthPre == [rev |-> revelation_level, trig |-> triggers_found,
             am |-> am_invocations]

\* Apply the outcome o of a tracker operation and record the operation
TruthCall(name, arg, o) ==
    /\ SetTracker(o.t)
    /\ call' = [op |-> name, arg |-> arg, pre |-> TruthPre, ret |-> o.ret,
                fired |-> o.fired]

TruthStep == nops < MaxTruthOps /\ nops' = nops + 1

StatInputs ==
    {IMPOSSIBLE_STATE, DEFAULT_HIDDEN_STATS,
     [courage |-> 0, sanity |-> 0, curiosity |-> 10, trust |-> 1]}

SessionInputs == {108, 109, 110}

TimePoints == {0, 10899, 10900, 10909, 10910, 20000}

SecretTexts == {"AM", " Ted ", "I have No Mouth", "am i dreaming"}

\* (choice_count, sanity) pairs around the gate of process_secret_input
SecretGates == {<<20, 4>>, <<19, 4>>, <<20, 5>>, <<12, 5>>}

ChoiceNumbers == {0, 1, 4, 5, 9, 10, 13, 20}

\* Windows a session has built by detect_choice_pattern calls alone, no
\* pattern trigger fired yet.
StartBuffers ==
    {<<>>, <<1, 13, 1, 13, 1>>, <<20, 5, 4, 20, 5, 4, 20, 5>>,
     <<1, 0, 9, 1, 0, 9, 1, 0>>, <<10, 9, 10, 9, 10>>,
     <<4, 4, 4, 4, 4, 4, 4, 4, 4, 4, 4, 4, 4, 4, 4, 1, 13, 1, 13, 1>>}

InitTruth ==
    /\ StoryInit /\ EndingsInit /\ MutationInit /\ NoHost
    /\ revelation_level = 0
    /\ triggers_found = <<>>
    /\ am_invocations = 0
    /\ choice_pattern_buffer \in StartBuffers
    /\ session_milestone_reached = FALSE
    /\ time_milestone_reached = FALSE
    /\ elapsed = 0
    /\ call = NoCall
    /\ nops = 0

TruthCheckImpossibleState ==
    /\ TruthStep
    /\ \E stats \in StatInputs :
         TruthCall("check_impossible_state", stats,
                   check_impossible_state(Tracker, stats))
    /\ UNCHANGED <<storyVars, endingVars, mutationVars, hostVars, elapsed>>

TruthCheckSessionMilestone ==
    /\ TruthStep
    /\ \E n \in SessionInputs :
         TruthCall("check_session_milestone", n, check_session_milestone(Tracker, n))
    /\ UNCHANGED <<storyVars, endingVars, mutationVars, hostVars, elapsed>>

TruthCheckTimeMilestone ==
    /\ TruthStep
    /\ \E now \in TimePoints :
         /\ now >= elapsed
         /\ elapsed' = now
         /\ TruthCall("check_time_milestone", now, check_time_milestone(Tracker, now))
    /\ UNCHANGED <<storyVars, endingVars, mutationVars, hostVars>>

TruthProcessSecretInput ==
    /\ TruthStep
    /\ \E txt \in SecretTexts, g \in SecretGates :
         TruthCall("process_secret_input", <<txt, g[2], g[1]>>,
                   process_secret_input(Tracker, txt, g[2], g[1]))
    /\ UNCHANGED <<storyVars, endingVars, mutationVars, hostVars, elapsed>>

\* (choice_count, sanity) pairs around the gate of should_add_breadcrumbs
BreadcrumbGates == SecretGates \cup {<<20, 6>>, <<20, 7>>}

TruthShouldAddBreadcrumbs ==
    /\ TruthStep
    /\ \E g \in BreadcrumbGates, draw \in BOOLEAN :
         TruthCall("should_add_breadcrumbs", <<g[1], g[2], draw>>,
                   should_add_breadcrumbs(Tracker, g[1], g[2], draw))
    /\ UNCHANGED <<storyVars, endingVars, mutationVars, hostVars, elapsed>>

TruthDetectChoicePattern ==
    /\ TruthStep
    /\ \E n \in ChoiceNumbers :
         TruthCall("detect_choice_pattern", n, detect_choice_pattern(Tracker, n))
    /\ UNCHANGED <<storyVars, endingVars, mutationVars, hostVars, elapsed>>

NextTruth ==
    \/ TruthCheckImpossibleState
    \/ TruthCheckSessionMilestone
    \/ TruthCheckTimeMilestone
    \/ TruthProcessSecretInput
    \/ TruthShouldAddBreadcrumbs
    \/ TruthDetectChoicePattern

SpecTruth == InitTruth /\ [][NextTruth]_vars

----------------------------------------------------------------------------
(* MutationManager catalog (engine/mutations.py).  A catalog entry keeps   *)
(* the fields the manager reads: key, type, rarity, duration, can_stack,   *)
(* requires_special_input.                                                 *)

Mut(k, t, r, d, s, i) ==
    [key |-> k, type |-> t, rarity |-> r, duration |-> d, can_stack |-> s,
     requires_special_input |-> i]

MODERATE_MUTATIONS ==
    {Mut("choice_inflation", "moderate", "common", 1, TRUE, FALSE),
     Mut("choice_drought", "moderate", "common", 1, TRUE, FALSE),
     Mut("hidden_choice", "moderate", "common", 1, TRUE, FALSE),
     Mut("reverse_choices", "moderate", "common", 1, TRUE, FALSE),
     Mut("duplicate_choices", "moderate", "common", 1, TRUE, FALSE),
     Mut("margin_madness", "moderate", "common", 2, TRUE, FALSE),
     Mut("redaction", "moderate", "common", 1, TRUE, FALSE),
     Mut("echo_active", "moderate", "common", 1, TRUE, FALSE),
     Mut("diagonal_slide", "moderate", "common", 1, TRUE, FALSE),
     Mut("scattered", "moderate", "common", 1, TRUE, FALSE),
     Mut("breathing_text", "moderate", "common", 2, TRUE, FALSE),
     Mut("no_narrative", "moderate", "uncommon", 1, FALSE, FALSE),
     Mut("no_choices", "moderate", "uncommon", 1, FALSE, FALSE),
     Mut("stat_reveal", "moderate", "uncommon", 0, TRUE, FALSE),
     Mut("box_collapse", "moderate", "uncommon", 1, TRUE, FALSE)}

WILD_MUTATIONS ==
    {Mut("narrator_split", "wild", "uncommon", 2, TRUE, FALSE),
     Mut("format_shift", "wild", "uncommon", 2, TRUE, FALSE),
     Mut("fourth_wall", "wild", "uncommon", 1, TRUE, FALSE),
     Mut("format_corruption", "wild", "uncommon", 1, TRUE, FALSE),
     Mut("static_vision", "wild", "uncommon", 1, TRUE, FALSE),
     Mut("mirror_reality", "wild", "uncommon", 1, TRUE, FALSE),
     Mut("fade_nothing", "wild", "uncommon", 1, TRUE, FALSE),
     Mut("open_dialogue", "wild", "rare", 3, FALSE, TRUE),
     Mut("confession_booth", "wild", "rare", 2, FALSE, TRUE),
     Mut("reality_argument", "wild", "rare", 3, FALSE, TRUE),
     Mut("name_horror", "wild", "rare", 2, FALSE, TRUE),
     Mut("time_pressure", "wild", "rare", 1, FALSE, TRUE),
     Mut("cipher_lock", "wild", "rare", 2, FALSE, TRUE),
     Mut("word_association", "wild", "rare", 1, FALSE, TRUE),
     Mut("memory_test", "wild", "rare", 1, FALSE, TRUE),
     Mut("text_parser", "wild", "rare", 3, FALSE, TRUE),
     Mut("coordinate_input", "wild", "rare", 2, FALSE, TRUE),
     Mut("reverse_narration", "wild", "rare", 2, FALSE, TRUE),
     Mut("fill_blank", "wild", "rare", 2, FALSE, TRUE),
     Mut("debug_mode", "wild", "ultra_rare", 4, FALSE, TRUE),
     Mut("code_editor", "wild", "ultra_rare", 4, FALSE, TRUE),
     Mut("temporal_loop", "wild", "ultra_rare", 3, FALSE, FALSE),
     Mut("cross_session", "wild", "ultra_rare", 2, TRUE, FALSE),
     Mut("computer_horror", "wild", "ultra_rare", 1, TRUE, FALSE),
     Mut("terminal_takeover", "wild", "ultra_rare", 2, TRUE, FALSE),
     Mut("spiral_narrative", "wild", "ultra_rare", 1, TRUE, FALSE),
     Mut("ascii_intrusion", "wild", "ultra_rare", 0, TRUE, FALSE),
     Mut("permission_error", "wild", "ultra_rare", 0, TRUE, FALSE),
     Mut("memory_rewrite", "wild", "ultra_rare", 0, TRUE, FALSE),
     Mut("choice_rebellion", "wild", "ultra_rare", 0, TRUE, FALSE),
     Mut("forced_random", "wild", "ultra_rare", 0, TRUE, FALSE),
     Mut("terminal_multiplication", "wild", "ultra_rare", 3, FALSE, TRUE),
     Mut("process_haunting", "wild", "ultra_rare", 4, TRUE, FALSE),
     Mut("clipboard_corruption", "wild", "ultra_rare", 2, TRUE, FALSE),
     Mut("notification_storm", "wild", "ultra_rare", 1, FALSE, FALSE),
     Mut("terminal_title_takeover", "wild", "ultra_rare", 3, TRUE, FALSE),
     Mut("screen_possession", "wild", "ultra_rare", 2, FALSE, FALSE),
     Mut("fake_system_crash", "wild", "ultra_rare", 0, FALSE, FALSE),
     Mut("file_system_illusion", "wild", "ultra_rare", 2, FALSE, FALSE),
     Mut("network_phantom", "wild", "ultra_rare", 1, FALSE, FALSE),
     Mut("echo_chamber", "wild", "ultra_rare", 3, FALSE, FALSE),
     Mut("background_persistence", "wild", "ultra_rare", 0, FALSE, FALSE)}

ALL_MUTATIONS == MODERATE_MUTATIONS \cup WILD_MUTATIONS

MUTATION_GUARANTEED_AT == {2, 6, 10, 15, 20}

\* The catalog entry of a key
MutationOf(k) == CHOOSE m \in ALL_MUTATIONS : m.key = k

----------------------------------------------------------------------------
(* MutationManager operations.  A tracked instance is the record           *)
(*   [key |-> mutation key, turns |-> turns_remaining, state |-> state]    *)

Keys(active) == {active[i].key : i \in 1..Len(active)}

\* [x for x in s if P(x)] for the instances that are kept by the aging pass
RECURSIVE update_active_mutations_from(_, _)
update_active_mutations_from(rest, n) ==
    IF rest = <<>> THEN <<>>
    ELSE LET inst == Head(rest)
             more == update_active_mutations_from(Tail(rest), n)
         IN IF inst.turns > 0
            THEN LET new_turns == inst.turns - 1
                     new_state == IF new_turns = 0 THEN "fading"
                                  ELSE IF n > 1 THEN "stacking"
                                  ELSE "active"
                 IN <<[key |-> inst.key, turns |-> new_turns, state |-> new_state]>>
                    \o more
            ELSE more

\* An aging pass that drops an instance as soon as its turns reach 0
RECURSIVE update_active_mutations_eager(_)
update_active_mutations_eager(active) ==
    IF active = <<>> THEN <<>>
    ELSE LET inst == Head(active)
             more == update_active_mutations_eager(Tail(active))
         IN IF inst.turns > 1
            THEN <<[key |-> inst.key, turns |-> inst.turns - 1,
                    state |-> "active"]>> \o more
            ELSE more

\* An aging pass that never drops an instance
RECURSIVE update_active_mutations_keep(_)
update_active_mutations_keep(active) ==
    IF active = <<>> THEN <<>>
    ELSE LET inst == Head(active)
             more == update_active_mutations_keep(Tail(active))
         IN <<[key |-> inst.key, turns |-> Max(0, inst.turns - 1),
               state |-> IF inst.turns <= 1 THEN "fading" ELSE "active"]>> \o more

\* An aging pass that marks an instance FADING one turn early
update_active_mutations_fading_early(active) ==
    LET kept == SelectSeq(active, LAMBDA inst : inst.turns > 0)
    IN [j \in 1..Len(kept) |->
           [key |-> kept[j].key, turns |-> kept[j].turns - 1,
            state |-> IF kept[j].turns - 1 <= 1 THEN "fading"
                      ELSE IF Len(active) > 1 THEN "stacking" ELSE "active"]]

update_active_mutations(active) ==
    update_active_mutations_from(active, Len(active))

\* Stage pool and base chance (percent) of _try_trigger_mutation
try_pool(cc) ==
    IF cc <= 3 THEN {m \in MODERATE_MUTATIONS : m.rarity = "common"}
    ELSE IF cc <= 8 THEN MODERATE_MUTATIONS
    ELSE IF cc <= 15
    THEN MODERATE_MUTATIONS
         \cup {m \in WILD_MUTATIONS : m.rarity \in {"common", "uncommon"}}
    ELSE ALL_MUTATIONS

base_chance(cc) ==
    IF cc <= 3 THEN 40 ELSE IF cc <= 8 THEN 50 ELSE IF cc <= 15 THEN 60
    ELSE IF cc <= 25 THEN 70 ELSE 80

\* Outcomes of `random.random() < base_chance + instability * 0.05`
RollOutcomes(cc, instability) ==
    IF base_chance(cc) + 5 * instability >= 100 THEN {TRUE} ELSE BOOLEAN

force_pool(cc) ==
    IF cc <= 3 THEN {m \in MODERATE_MUTATIONS : m.rarity = "common"}
    ELSE IF cc <= 8 THEN MODERATE_MUTATIONS
    ELSE ALL_MUTATIONS

\* mutation_history[-3:]
LastThree(history) ==
    IF Len(history) <= 3 THEN SeqToSet(history)
    ELSE {history[i] : i \in (Len(history) - 2)..Len(history)}

\* mutation_history[-5:]
LastFive(history) ==
    IF Len(history) <= 5 THEN SeqToSet(history)
    ELSE {history[i] : i \in (Len(history) - 4)..Len(history)}

\* A selection that does not look at the stackability of the candidates
select_mutation_candidates_unfiltered(pool, history, active) ==
    LET a1 == {m \in pool : m.key \notin LastFive(history)}
    IN IF a1 = {} THEN pool ELSE a1

\* The candidates random.choices draws from in _select_mutation (every
\* rarity weight is positive, so each candidate can be drawn)
select_mutation_candidates(pool, history, active) ==
    LET a1 == {m \in pool : m.key \notin LastFive(history)}
        a2 == IF a1 = {} THEN pool ELSE a1
        a3 == IF active # <<>> THEN {m \in a2 : m.can_stack} ELSE a2
    IN IF a3 = {} THEN pool ELSE a3

rarity_weight(m) ==
    CASE m.rarity = "common"   -> 60
      [] m.rarity = "uncommon" -> 30
      [] m.rarity = "rare"     -> 8
      [] OTHER                 -> 2

\* Outcomes of the cooldown assignment in _activate_mutation
CooldownDraws(m) ==
    IF m.rarity \in {"rare", "ultra_rare"} THEN 1..2 ELSE {0}

\* _activate_mutation with the earlier cooldowns (4-6 rare, 2-4 otherwise)
activate_mutation_long_cooldown(active, m, cd) ==
    [active |-> Append(active,
                   [key |-> m.key, turns |-> m.duration,
                    state |-> IF m.duration > 0 THEN "activating" ELSE "active"]),
     cooldown |-> IF m.rarity \in {"rare", "ultra_rare"} THEN cd + 3 ELSE 2]

\* _activate_mutation: the tracked list and the cooldown after activation
activate_mutation(active, m, cd) ==
    [active |-> Append(active,
                   [key |-> m.key, turns |-> m.duration,
                    state |-> IF m.duration > 0 THEN "activating" ELSE "active"]),
     cooldown |-> cd]

check_combos(active) ==
    IF Len(active) < 2 THEN "None"
    ELSE LET keys == Keys(active)
         IN IF "open_dialogue" \in keys /\ "fourth_wall" \in keys
            THEN "meta_conversation"
            ELSE IF "time_pressure" \in keys /\ "choice_inflation" \in keys
            THEN "overwhelming_chaos"
            ELSE IF "format_shift" \in keys /\ "narrator_split" \in keys
            THEN "competing_formats"
            ELSE IF "debug_mode" \in keys /\ "code_editor" \in keys
            THEN "system_access"
            ELSE "None"

\* [m for m, turns, state in active_mutations if turns > 0]
RECURSIVE ActiveKeys(_)
ActiveKeys(active) ==
    IF active = <<>> THEN <<>>
    ELSE (IF Head(active).turns > 0 THEN <<Head(active).key>> ELSE <<>>)
         \o ActiveKeys(Tail(active))

\* End of check_mutation: store the manager state, detect combos, return
FinishCheck(cc, aged, newActive, newHistory, newCooldown, activated) ==
    /\ active_mutations' = newActive
    /\ mutation_history' = newHistory
    /\ cooldown' = newCooldown
    /\ combo_active' = check_combos(newActive)
    /\ call' = [op |-> "check_mutation", cc |-> cc,
                pre_active |-> active_mutations, pre_cooldown |-> cooldown,
                aged |-> aged, activated |-> activated,
                ret |-> ActiveKeys(newActive)]

\* An activation that leaves the cooldown of _activate_mutation in place on
\* a guaranteed turn
Activate_keeping_cooldown(cc, aged, m, guaranteed) ==
    \E cd \in CooldownDraws(m) :
      LET a == activate_mutation(aged, m, cd)
      IN FinishCheck(cc, aged, a.active, Append(mutation_history, m.key),
                     a.cooldown, m.key)

\* A new mutation m is selected (history) and activated
Activate(cc, aged, m, guaranteed) ==
    \E cd \in CooldownDraws(m) :
      LET a == activate_mutation(aged, m, cd)
      IN FinishCheck(cc, aged, a.active, Append(mutation_history, m.key),
                     IF guaranteed THEN 0 ELSE a.cooldown, m.key)

\* The mutations random.choices can return in _select_mutation that the
\* exploration follows: every candidate (W = "all"), the candidates of the
\* longest duration (W = "longest") or one of them
random_choices(candidates, W) ==
    IF W = "all" THEN candidates
    ELSE IF W = "longest"
    THEN {m \in candidates : \A n \in candidates : n.duration <= m.duration}
    ELSE {CHOOSE m \in candidates : TRUE}

\* check_mutation rolling on every ordinary turn, whatever the cooldown
check_mutation_drawing_ignoring_cooldown(cc, instability, W) ==
    LET aged == update_active_mutations(active_mutations)
        cd1  == IF cooldown > 0 THEN cooldown - 1 ELSE cooldown
    IN IF cc \in MUTATION_GUARANTEED_AT
       THEN \E roll \in RollOutcomes(cc, instability) :
              LET pool == IF roll THEN try_pool(cc) ELSE force_pool(cc)
              IN \E m \in random_choices(
                              select_mutation_candidates(pool, mutation_history, aged), W) :
                   Activate(cc, aged, m, TRUE)
       ELSE \E roll \in RollOutcomes(cc, instability) :
              IF roll
              THEN \E m \in random_choices(
                                select_mutation_candidates(
                                    try_pool(cc), mutation_history, aged), W) :
                     Activate(cc, aged, m, FALSE)
              ELSE FinishCheck(cc, aged, aged, mutation_history, cd1, "None")

check_mutation_drawing(cc, instability, W) ==
    LET aged == update_active_mutations(active_mutations)
        cd1  == IF cooldown > 0 THEN cooldown - 1 ELSE cooldown
    IN IF cc \in MUTATION_GUARANTEED_AT
       THEN \E roll \in RollOutcomes(cc, instability) :
              LET pool == IF roll THEN try_pool(cc) ELSE force_pool(cc)
              IN \E m \in random_choices(
                              select_mutation_candidates(pool, mutation_history, aged), W) :
                   Activate(cc, aged, m, TRUE)
       ELSE IF cd1 = 0
       THEN \E roll \in RollOutcomes(cc, instability) :
              IF roll
              THEN \E m \in random_choices(
                                select_mutation_candidates(
                                    try_pool(cc), mutation_history, aged), W) :
                     Activate(cc, aged, m, FALSE)
              ELSE FinishCheck(cc, aged, aged, mutation_history, cd1, "None")
       ELSE FinishCheck(cc, aged, aged, mutation_history, cd1, "None")

check_mutation(cc, instability) == check_mutation_drawing(cc, instability, "all")

----------------------------------------------------------------------------
(* SpecMutation: check_mutation called on successive turns of a session    *)

\* Turns at which the exploration calls check_mutation: a guaranteed early
\* turn, an ordinary early turn, a guaranteed mid-game turn, two ordinary
\* late turns.
TurnInputs == {2, 5, 10, 16, 17}

\* The last guaranteed turn, the only one a cooldown above 0 can reach; the
\* exploration calls check_mutation at it on every call but the last
LastGuaranteedTurn ==
    CHOOSE t \in MUTATION_GUARANTEED_AT : \A u \in MUTATION_GUARANTEED_AT : u <= t

InstabilityInputs == {0, 12}

InitMutation ==
    /\ StoryInit /\ TruthInit /\ EndingsInit /\ MutationInit /\ NoHost
    /\ call = NoCall
    /\ nops = 0

LastTurn == IF call.op = "check_mutation" THEN call.cc ELSE 0

MutationCheck ==
    /\ nops < MaxMutationCalls
    /\ nops' = nops + 1
    /\ \E cc \in TurnInputs \cup {LastGuaranteedTurn}, il \in InstabilityInputs :
         /\ cc > LastTurn
         /\ cc = LastGuaranteedTurn => nops + 1 < MaxMutationCalls
         /\ check_mutation(cc, il)
    /\ UNCHANGED <<storyVars, truthVars, endingVars, hostVars>>

NextMutation == MutationCheck

SpecMutation == InitMutation /\ [][NextMutation]_vars

----------------------------------------------------------------------------
(* EndingsManager.  A context is the record                                *)
(*   [character_stats, hidden_stats, choice_count, revelation_level,       *)
(*    session_count]; an ending is named by its type, "None" for no ending *)

\* The section of the ENDINGS table an ending is listed under
ENDING_CATEGORY ==
    [violent_death |-> "death", slow_decay |-> "death", sacrifice |-> "death",
     betrayed |-> "death",
     breakdown |-> "sanity", merge_am |-> "sanity", enlightened |-> "sanity",
     truth_revealed |-> "discovery", escape_attempt |-> "discovery",
     acceptance |-> "discovery",
     survivor |-> "victory", transcendence |-> "victory",
     loop_eternal |-> "meta", toy |-> "meta"]

determine_death_ending(context, cause) ==
    IF cause = "instant" THEN "betrayed"
    ELSE IF cause = "sacrifice" THEN "sacrifice"
    ELSE IF context.character_stats["health"] < -20 THEN "violent_death"
    ELSE "slow_decay"

determine_sanity_ending(context, revelation) ==
    IF revelation >= 4 THEN "merge_am"
    ELSE IF context.hidden_stats["curiosity"] >= 9 THEN "enlightened"
    ELSE "breakdown"

check_victory_endings(context, revelation) ==
    IF context.character_stats["health"] > 80
       /\ \A st \in DOMAIN context.hidden_stats : context.hidden_stats[st] >= 8
    THEN "transcendence"
    ELSE IF context.choice_count >= 50 /\ context.character_stats["health"] > 50
    THEN "survivor"
    ELSE "None"

check_discovery_endings(context, revelation, session) ==
    IF session >= 109 /\ revelation >= 5 /\ context.choice_count >= 30
    THEN "loop_eternal"
    ELSE IF revelation >= 5 /\ context.choice_count >= 20
    THEN "truth_revealed"
    ELSE IF /\ context.hidden_stats["trust"] >= 8
            /\ context.hidden_stats["curiosity"] <= 3
            /\ revelation = 0
            /\ context.choice_count >= 25
    THEN "acceptance"
    ELSE "None"

\* determine_exhaustion_ending testing the revelation level first
determine_exhaustion_ending_revelation_first(context, revelation) ==
    IF revelation >= 4 THEN "loop_eternal"
    ELSE IF \A st \in DOMAIN context.hidden_stats : context.hidden_stats[st] < 3
    THEN "toy"
    ELSE "slow_decay"

determine_exhaustion_ending(context, revelation) ==
    IF \A st \in DOMAIN context.hidden_stats : context.hidden_stats[st] < 3
    THEN "toy"
    ELSE IF revelation >= 4 THEN "loop_eternal"
    ELSE "slow_decay"

\* the exhaustion test passing the 30th choice
story_exhausted_late(cc) == cc > 30

\* `choice_count >= 30`
story_exhausted(cc) == cc >= 30

\* check_for_ending testing sanity before health
check_for_ending_sanity_first(context, cause) ==
    LET revelation == dict_get(context, "revelation_level", 0)
        session    == dict_get(context, "session_count", 0)
    IN IF context.hidden_stats["sanity"] <= 0
       THEN determine_sanity_ending(context, revelation)
       ELSE IF context.character_stats["health"] <= 0
       THEN determine_death_ending(context, cause)
       ELSE IF check_victory_endings(context, revelation) # "None"
       THEN check_victory_endings(context, revelation)
       ELSE IF check_discovery_endings(context, revelation, session) # "None"
       THEN check_discovery_endings(context, revelation, session)
       ELSE IF story_exhausted(context.choice_count)
       THEN determine_exhaustion_ending(context, revelation)
       ELSE "None"

check_for_ending(context, cause) ==
    LET revelation == dict_get(context, "revelation_level", 0)
        session    == dict_get(context, "session_count", 0)
    IN IF context.character_stats["health"] <= 0
       THEN determine_death_ending(context, cause)
       ELSE IF context.hidden_stats["sanity"] <= 0
       THEN determine_sanity_ending(context, revelation)
       ELSE IF check_victory_endings(context, revelation) # "None"
       THEN check_victory_endings(context, revelation)
       ELSE IF check_discovery_endings(context, revelation, session) # "None"
       THEN check_discovery_endings(context, revelation, session)
       ELSE IF story_exhausted(context.choice_count)
       THEN determine_exhaustion_ending(context, revelation)
       ELSE "None"

----------------------------------------------------------------------------
(* SpecEndings: the EndingsManager asked about engine states of a session   *)

EndingHealths == {0, 15, 51, 81, 150}

EndingCounts == {0, 20, 25, 30, 50}

EndingHidden ==
    [courage : {2, 8}, sanity : {0, 2, 8}, curiosity : {2, 9}, trust : {1, 8}]

RevelationInputs == {0, 3, 4, 5}

InitEndings ==
    /\ \E h \in EndingHealths, cc \in EndingCounts, hs \in EndingHidden :
         /\ character_stats = [DEFAULT_CHARACTER_STATS EXCEPT !["health"] = h]
         /\ hidden_stats = hs
         /\ choice_count = cc
         /\ choice_history = Waits(cc)
         /\ event_flags = <<>>
         /\ instability_level =
               update_instability([cs |-> DEFAULT_CHARACTER_STATS, hs |-> hs,
                                   ef |-> <<>>, il |-> 0], cc).il
         /\ last_danger_level = "none"
    /\ TruthInit /\ EndingsInit /\ MutationInit /\ NoHost
    /\ call = NoCall
    /\ nops = 0

\* get_context() with the revelation level and session count the caller adds
Context(revelation, session) ==
    [character_stats |-> character_stats, hidden_stats |-> hidden_stats,
     choice_count |-> choice_count, revelation_level |-> revelation,
     session_count |-> session]

EndingsCheckForEnding ==
    /\ \E r \in RevelationInputs, n \in SessionInputs :
         call' = [op |-> "check_for_ending", context |-> Context(r, n),
                  cause |-> death_cause,
                  ret |-> check_for_ending(Context(r, n), death_cause)]
    /\ UNCHANGED <<storyVars, truthVars, endingVars, mutationVars, hostVars, nops>>

EndingsMarkInstantDeath ==
    /\ death_cause' = "instant"
    /\ call' = [op |-> "mark_instant_death"]
    /\ UNCHANGED <<storyVars, truthVars, mutationVars, hostVars, warned_about_health, nops>>

EndingsMarkSacrifice ==
    /\ death_cause' = "sacrifice"
    /\ call' = [op |-> "mark_sacrifice"]
    /\ UNCHANGED <<storyVars, truthVars, mutationVars, hostVars, warned_about_health, nops>>

EndingsShouldWarnLowHealth ==
    /\ LET warn == character_stats["health"] <= 20 /\ ~warned_about_health
       IN /\ warned_about_health' = (warned_about_health \/ warn)
          /\ call' = [op |-> "should_warn_low_health", ret |-> warn]
    /\ UNCHANGED <<storyVars, truthVars, mutationVars, hostVars, death_cause, nops>>

NextEndings ==
    \/ EndingsCheckForEnding
    \/ EndingsMarkInstantDeath
    \/ EndingsMarkSacrifice
    \/ EndingsShouldWarnLowHealth

SpecEndings == InitEndings /\ [][NextEndings]_vars

----------------------------------------------------------------------------
(* Claims *)

StoryOps == {"process_choice", "trigger_event", "modify_hidden_stat",
             "modify_character_stat"}

TruthOps == {"check_impossible_state", "check_session_milestone",
             "check_time_milestone", "process_secret_input",
             "detect_choice_pattern"}

TriggerIds == {"impossible_state", "109_milestone", "time_109", "am_invoked",
               "ted_remembered", "phrase_remembered", "pattern_am",
               "pattern_ted", "pattern_109"}

\* C1: after any sequence of process_choice, trigger_event,
\* _modify_hidden_stat and _modify_character_stat calls, every hidden stat
\* is in [0,10], health is in [0,max_health], and strength, speed and
\* intelligence are in [1,10].
C1_StatsWithinRanges ==
    /\ \A st \in DOMAIN hidden_stats : hidden_stats[st] \in 0..10
    /\ character_stats["health"] \in 0..character_stats["max_health"]
    /\ \A st \in {"strength", "speed", "intelligence"} :
           character_stats[st] \in 1..10

\* C2: within one session revelation_level stays in [0,5] and no
\* TruthTracker call lowers it.
C2_RevelationMonotone ==
    /\ revelation_level \in 0..5
    /\ call.op \in TruthOps => call.pre.rev <= revelation_level

\* C2 witness: a trigger worth 3 fired at level 3 and the level stopped at 5.
C2_Witness ==
    /\ call.op = "process_secret_input"
    /\ call.fired = "phrase_remembered"
    /\ call.pre.rev = 3
    /\ revelation_level = 5

\* C3: each named trigger fires at most once per session: triggers_found
\* holds only the nine trigger ids, each at most once, it only grows, and
\* revelation_level rises in a call only together with the append of an id
\* that was not found before.
C3_TriggersFireOnce ==
    /\ SeqToSet(triggers_found) \subseteq TriggerIds
    /\ \A i, j \in 1..Len(triggers_found) :
           triggers_found[i] = triggers_found[j] => i = j
    /\ call.op \in TruthOps =>
         /\ Len(call.pre.trig) <= Len(triggers_found)
         /\ SubSeq(triggers_found, 1, Len(call.pre.trig)) = call.pre.trig
         /\ Len(triggers_found) <= Len(call.pre.trig) + 1
         /\ revelation_level > call.pre.rev =>
                Len(triggers_found) = Len(call.pre.trig) + 1
         /\ Len(triggers_found) = Len(call.pre.trig) + 1 =>
                ~InList(triggers_found[Len(triggers_found)], call.pre.trig)

\* C3 witness: the secret word 'am' typed again inside the gate after its
\* trigger had fired: counted, but nothing fired.
C3_Witness ==
    /\ call.op = "process_secret_input"
    /\ lower_strip(call.arg[1]) = "am"
    /\ call.ret = "am_response"
    /\ InList("am_invoked", call.pre.trig)
    /\ am_invocations = 2
    /\ revelation_level = call.pre.rev
    /\ triggers_found = call.pre.trig

VictoryCondition(c) ==
    \/ /\ c.character_stats["health"] > 80
       /\ \A st \in DOMAIN c.hidden_stats : c.hidden_stats[st] >= 8
    \/ c.choice_count >= 50 /\ c.character_stats["health"] > 50

DiscoveryCondition(c) ==
    \/ c.revelation_level >= 5 /\ c.choice_count >= 20
    \/ /\ c.hidden_stats["trust"] >= 8 /\ c.hidden_stats["curiosity"] <= 3
       /\ c.revelation_level = 0 /\ c.choice_count >= 25

\* C4: check_for_ending applies a strict priority order, first match wins:
\* health <= 0 gives a death ending, else sanity <= 0 a sanity ending, else
\* a victory condition a victory ending, else a discovery condition a
\* discovery ending, else choice_count >= 30 an exhaustion ending, else none.
C4_EndingPriority ==
    call.op = "check_for_ending" =>
      LET c == call.context
          e == call.ret
      IN IF c.character_stats["health"] <= 0
         THEN e # "None" /\ ENDING_CATEGORY[e] = "death"
         ELSE IF c.hidden_stats["sanity"] <= 0
         THEN e # "None" /\ ENDING_CATEGORY[e] = "sanity"
         ELSE IF VictoryCondition(c)
         THEN e # "None" /\ ENDING_CATEGORY[e] = "victory"
         ELSE IF DiscoveryCondition(c)
         THEN e \in {"loop_eternal", "truth_revealed", "acceptance"}
         ELSE IF c.choice_count >= 30
         THEN e \in {"toy", "loop_eternal", "slow_decay"}
         ELSE e = "None"

\* C4 witness: health and sanity both at 0 and a death ending returned.
C4_Witness ==
    /\ call.op = "check_for_ending"
    /\ call.context.character_stats["health"] <= 0
    /\ call.context.hidden_stats["sanity"] <= 0
    /\ ENDING_CATEGORY[call.ret] = "death"

IsCheck == call.op = "check_mutation"

\* C5 as claimed: every aging pass lowers every tracked instance by exactly
\* 1 and an instance is removed exactly when it reaches 0, so no instance
\* with turns-remaining 0 is tracked when the selection pass runs.
C5_NoZeroAtSelection ==
    IsCheck =>
      /\ \A j \in 1..Len(call.aged) : call.aged[j].turns > 0
      /\ \A i \in 1..Len(call.pre_active) :
             call.pre_active[i].turns > 1 =>
                 \E j \in 1..Len(call.aged) :
                     /\ call.aged[j].key = call.pre_active[i].key
                     /\ call.aged[j].turns = call.pre_active[i].turns - 1

\* C5 amended: an aging pass lowers by exactly 1 every tracked instance
\* whose turns-remaining is above 0 and keeps it, in order; it removes
\* exactly the instances whose turns-remaining was already 0.  An instance
\* that reaches 0 is FADING and still tracked during that call's selection
\* pass, is removed by the next aging pass, and is never returned as active.
C5_AgingPass ==
    IsCheck =>
      LET pre  == call.pre_active
          aged == call.aged
          kept == {i \in 1..Len(pre) : pre[i].turns > 0}
      IN /\ Len(aged) = Cardinality(kept)
         /\ \A j \in 1..Len(aged) :
              \E i \in kept :
                 /\ Cardinality({k \in kept : k <= i}) = j
                 /\ aged[j].key = pre[i].key
                 /\ aged[j].turns = pre[i].turns - 1
                 /\ (aged[j].turns = 0 <=> aged[j].state = "fading")
         /\ \A i \in 1..Len(pre) :
              pre[i].turns = 0 => pre[i].key \notin Keys(aged)
         /\ \A j \in 1..Len(active_mutations) :
              active_mutations[j].turns = 0 =>
                  ~InList(active_mutations[j].key, call.ret)

\* C5 witness: an instance that was FADING with 0 turns before the call was
\* removed by the call's aging pass while another one reached 0 and stayed.
C5_Witness ==
    /\ IsCheck
    /\ \E i \in 1..Len(call.pre_active) :
         /\ call.pre_active[i].turns = 0
         /\ call.pre_active[i].state = "fading"
         /\ call.pre_active[i].key \notin Keys(call.aged)
    /\ \E j \in 1..Len(call.aged) :
         call.aged[j].turns = 0 /\ call.aged[j].state = "fading"

\* C6: a mutation with duration 0 never persists past the turn in which it
\* activates: the call that activates it does not return it, the aging pass
\* of the next call removes it, and no later call tracks or returns it
\* unless that call activates it again.
C6_DurationZeroGone ==
    IsCheck =>
      /\ \A i \in 1..Len(call.pre_active) :
           MutationOf(call.pre_active[i].key).duration = 0 =>
               call.pre_active[i].key \notin Keys(call.aged)
      /\ \A k \in Keys(active_mutations) :
           MutationOf(k).duration = 0 => call.activated = k
      /\ \A j \in 1..Len(call.ret) : MutationOf(call.ret[j]).duration # 0

\* C6 witness: a duration-0 mutation tracked before the call is gone after it.
C6_Witness ==
    /\ IsCheck
    /\ \E i \in 1..Len(call.pre_active) :
         /\ MutationOf(call.pre_active[i].key).duration = 0
         /\ call.pre_active[i].key \notin Keys(active_mutations)

IsRare(k) == MutationOf(k).rarity \in {"rare", "ultra_rare"}

\* C7 as claimed: whenever check_mutation activates a rare or ultra-rare
\* mutation the cooldown is in {1,2} when the call returns; whenever it
\* activates a common or uncommon one the cooldown is 0.
C7_CooldownByRarity ==
    (IsCheck /\ call.activated # "None") =>
        IF IsRare(call.activated) THEN cooldown \in {1, 2} ELSE cooldown = 0

\* C7 amended: whenever check_mutation activates a rare or ultra-rare
\* mutation on a turn outside the guaranteed set the cooldown is in {1,2}
\* when the call returns; on a guaranteed turn the cooldown is 0 whatever
\* the rarity; a common or uncommon activation always leaves it 0.
C7_CooldownByRarityAndTurn ==
    (IsCheck /\ call.activated # "None") =>
        IF IsRare(call.activated) /\ call.cc \notin MUTATION_GUARANTEED_AT
        THEN cooldown \in {1, 2}
        ELSE cooldown = 0

\* C7 witness: a rare mutation activated on the ordinary turn 16 left the
\* cooldown at 2.
C7_Witness ==
    /\ IsCheck
    /\ call.cc = 16
    /\ call.activated # "None"
    /\ MutationOf(call.activated).rarity = "rare"
    /\ cooldown = 2

IsScenarioChoice ==
    /\ call.op = "process_choice"
    /\ last_danger_level = "extreme"
    /\ call.pre.cs["health"] = 100
    /\ choice_count = 25

\* C8 as claimed: from health 100, one choice classified 'extreme' and
\* processed at choice_count 25 yields a damage d in [30,45], leaves health
\* exactly 100 - d and lowers sanity by exactly 1 or 2.
C8_ExtremeScenario ==
    IsScenarioChoice =>
        /\ (100 - character_stats["health"]) \in 30..45
        /\ (call.pre.hs["sanity"] - hidden_stats["sanity"]) \in {1, 2}

OtherSanityWords ==
    sanity_words \cup {"horror", "witness", "paranoid", "suspicious"}

\* C8 amended: from health 100, one choice classified 'extreme' and
\* processed at choice_count 25 takes a tier damage d in [30,45]; health
\* ends at 100 - d, less the 5..15 of the occasional-danger roll of the same
\* choice when that roll fires.  When the text holds no other sanity
\* keyword, sanity ends at max(0, sanity - k) with k in {1,2}, one lower
\* (not below 0) when the random sanity drain of the same choice fires.
C8_ExtremeScenarioWithDrains ==
    IsScenarioChoice =>
        /\ (100 + call.hit - character_stats["health"]) \in 30..45
        /\ call.hit \in {0} \cup ((-15)..(-5))
        /\ ~AnyOccurs(OtherSanityWords, lower(call.text)) =>
             \E k \in {1, 2} :
                hidden_stats["sanity"] =
                    Max(0, call.pre.hs["sanity"] - k - (IF call.drain THEN 1 ELSE 0))

\* C8 witness: the scenario with neither random drain: damage 45, sanity
\* down by 2.
C8_Witness ==
    /\ IsScenarioChoice
    /\ call.hit = 0 /\ ~call.drain
    /\ character_stats["health"] = 55
    /\ call.pre.hs["sanity"] = 10 /\ hidden_stats["sanity"] = 8

\* C9: with hidden stats exactly (0, 0, 10, 0) the first
\* check_impossible_state call returns true, appends the trigger and raises
\* revelation_level by 2 (capped at 5); a later identical call returns
\* false and leaves revelation_level and triggers_found unchanged.
C9_ImpossibleStateOnce ==
    (call.op = "check_impossible_state" /\ call.arg = IMPOSSIBLE_STATE) =>
        IF ~InList("impossible_state", call.pre.trig)
        THEN /\ call.ret = TRUE
             /\ revelation_level = Min(5, call.pre.rev + 2)
             /\ triggers_found = Append(call.pre.trig, "impossible_state")
        ELSE /\ call.ret = FALSE
             /\ revelation_level = call.pre.rev
             /\ triggers_found = call.pre.trig

\* C9 witness: the second identical check, after the first one fired.
C9_Witness ==
    /\ call.op = "check_impossible_state"
    /\ call.arg = IMPOSSIBLE_STATE
    /\ InList("impossible_state", call.pre.trig)
    /\ call.ret = FALSE
    /\ revelation_level = call.pre.rev

AllHiddenBelow3(c) == \A st \in DOMAIN c.hidden_stats : c.hidden_stats[st] < 3

\* C10 as claimed: whenever check_for_ending is evaluated with choice_count
\* at 30 and all four hidden stats below 3, it returns the 'toy' ending.
C10_ToyAtExhaustion ==
    (/\ call.op = "check_for_ending"
     /\ call.context.choice_count = 30
     /\ AllHiddenBelow3(call.context)) => call.ret = "toy"

\* C10 amended: whenever check_for_ending is evaluated with choice_count at
\* 30, all four hidden stats below 3, health above 0, sanity above 0 and a
\* context revelation level below 5, it returns the 'toy' ending.
C10_ToyAtExhaustionAlive ==
    (/\ call.op = "check_for_ending"
     /\ call.context.choice_count = 30
     /\ AllHiddenBelow3(call.context)
     /\ call.context.character_stats["health"] > 0
     /\ call.context.hidden_stats["sanity"] > 0
     /\ call.context.revelation_level < 5) => call.ret = "toy"

\* C10 witness: exhaustion at 30 with low stats, alive, revelation level 4.
C10_Witness ==
    /\ call.op = "check_for_ending"
    /\ call.context.choice_count = 30
    /\ AllHiddenBelow3(call.context)
    /\ call.context.character_stats["health"] > 0
    /\ call.context.hidden_stats["sanity"] > 0
    /\ call.context.revelation_level = 4
    /\ call.ret = "toy"

----------------------------------------------------------------------------
(* Claims on the danger tier, the choice log and the instant-death trap *)

TierVocabulary(tier) ==
    CASE tier = "extreme" -> extreme_keywords
      [] tier = "high"    -> high_keywords
      [] tier = "medium"  -> medium_keywords
      [] tier = "low"     -> low_keywords

TierRank(tier) ==
    CASE tier = "extreme" -> 4
      [] tier = "high"    -> 3
      [] tier = "medium"  -> 2
      [] tier = "low"     -> 1

MatchingTiers(text) ==
    {tier \in {"extreme", "high", "medium", "low"} :
        \E w \in TierVocabulary(tier) : Occurs(w, text)}

\* The tier the claim describes for a text on which the trap did not fire
HighestTier(text) ==
    IF MatchingTiers(text) = {} THEN "none"
    ELSE CHOOSE tier \in MatchingTiers(text) :
            \A other \in MatchingTiers(text) : TierRank(other) <= TierRank(tier)

\* C11: the tier _assess_choice_danger returns is decided by the lower-cased
\* text and the random draw alone and the evaluation changes no engine
\* state: 'instant_death' exactly when the text holds a trap marker and the
\* draw fires, otherwise the highest tier in extreme > high > medium > low
\* one of whose words occurs in the text, 'none' when no word occurs; the
\* tier process_choice records for a choice is this tier of the lower-cased
\* choice text.
C11_DangerTier ==
    /\ call.op = "assess_choice_danger" =>
         /\ Pre = call.pre
         /\ (call.ret = "instant_death") <=>
                (AnyOccurs(trap_markers, call.text) /\ call.roll)
         /\ call.ret # "instant_death" => call.ret = HighestTier(call.text)
    /\ call.op = "process_choice" =>
         /\ last_danger_level = "instant_death" =>
                AnyOccurs(trap_markers, lower(call.text))
         /\ last_danger_level # "instant_death" =>
                last_danger_level = HighestTier(lower(call.text))

\* C11 witness: a text holding words of two vocabularies ('confront
\* directly' holds 'confront') is classified 'extreme'.
C11_Witness ==
    /\ call.op = "assess_choice_danger"
    /\ call.text = {"confront directly"}
    /\ MatchingTiers(call.text) = {"extreme", "high"}
    /\ call.ret = "extreme"

\* C12: every process_choice call raises choice_count by exactly 1 and
\* appends exactly the chosen text to choice_history, leaving the earlier
\* entries as they were; no other operation changes either, and
\* choice_count always equals the length of choice_history.
C12_ChoiceLog ==
    /\ choice_count = Len(choice_history)
    /\ call.op = "process_choice" =>
         /\ choice_count = call.pre.cc + 1
         /\ Len(choice_history) = Len(call.pre.hist) + 1
         /\ \A i \in 1..Len(call.pre.hist) : choice_history[i] = call.pre.hist[i]
         /\ choice_history[Len(choice_history)] = call.text
    /\ call.op \in {"trigger_event", "modify_hidden_stat",
                    "modify_character_stat", "assess_choice_danger"} =>
         /\ choice_count = call.pre.cc
         /\ choice_history = call.pre.hist

\* C12 witness: the 21st choice processed, logged as entry 21 in the case it
\* was typed in.
C12_Witness ==
    /\ call.op = "process_choice"
    /\ call.pre.cc = 20
    /\ choice_count = 21
    /\ choice_history[21] = {"ATTACK"}

\* C13: when the outcome of a turn is instant_death, health is 0 as soon as
\* the resolver has run, the instant-death event is flagged, and the
\* resolver has applied no tier damage and no sanity delta: every other
\* character stat and every hidden stat is as before the turn.  Health is
\* still 0 when process_choice returns.
C13_InstantDeath ==
    (call.op = "process_choice" /\ last_danger_level = "instant_death") =>
        /\ call.resolved.cs = [call.pre.cs EXCEPT !["health"] = 0]
        /\ call.resolved.hs = call.pre.hs
        /\ InList("instant_death_trap", call.resolved.ef)
        /\ InList("instant_death_trap", event_flags)
        /\ character_stats["health"] = 0

\* C13 witness: the trap fires on a healthy character.
C13_Witness ==
    /\ call.op = "process_choice"
    /\ last_danger_level = "instant_death"
    /\ call.pre.cs["health"] = 150
    /\ call.resolved.cs["health"] = 0
    /\ ~InList("instant_death_trap", call.pre.ef)

\* The events of the critical set that are flagged, each counted once
FlaggedCritical == SeqToSet(event_flags) \cap CRITICAL_EVENTS

ExpectedInstability ==
    (choice_count \div 5)
    + (IF hidden_stats["sanity"] < 3 THEN 2 ELSE 0)
    + (IF hidden_stats["trust"] < 2 THEN 1 ELSE 0)
    + Cardinality(FlaggedCritical)

\* C20: after every process_choice and every trigger_event call,
\* instability_level is floor(choice_count / 5), plus 2 when sanity is
\* below 3, plus 1 when trust is below 2, plus the number of distinct
\* flagged events of the critical set; triggering an event that is already
\* flagged changes nothing.
C20_Instability ==
    /\ call.op \in {"process_choice", "trigger_event"} =>
         instability_level = ExpectedInstability
    /\ (call.op = "trigger_event" /\ InList(call.event, call.pre.ef)) =>
         Pre = call.pre

\* C20 witness: a critical event triggered a second time, after a choice
\* had raised the level above the 1 the event alone accounts for.
C20_Witness ==
    /\ call.op = "trigger_event"
    /\ InList(call.event, call.pre.ef)
    /\ call.event \in CRITICAL_EVENTS
    /\ instability_level >= 2

----------------------------------------------------------------------------
(* SessionManager and the start of a Game.  A value read from the ghost    *)
(* memory file is tagged with its Python type.                             *)

PyInt(n) == [type |-> "int", value |-> n]

PyStr(x) == [type |-> "str", value |-> x]

\* The truth-tracker states a ghost file can hold (get_state_dict of an
\* earlier session)
SavedTruthStates ==
    {EmptyDict,
     [revelation_level |-> 2, triggers_found |-> <<"am_invoked">>,
      am_invocations |-> 1, session_milestone_reached |-> FALSE,
      time_milestone_reached |-> FALSE],
     [revelation_level |-> 4, triggers_found |-> <<"am_invoked", "ted_remembered">>,
      am_invocations |-> 3, session_milestone_reached |-> FALSE,
      time_milestone_reached |-> FALSE],
     [revelation_level |-> 5, triggers_found |-> <<"109_milestone", "am_invoked">>,
      am_invocations |-> 1, session_milestone_reached |-> TRUE,
      time_milestone_reached |-> FALSE]}

SavedSessions == {0, 1, 2, 5, 108, 109, 110}

\* The .ghost_memory file: absent, unparseable, or the JSON object an
\* earlier session wrote (an old one lacks the truth_tracker key)
GhostFiles ==
    {[state |-> "missing"], [state |-> "corrupt"]}
    \cup {[state |-> "json",
           data |-> [sessions |-> PyInt(n), fragments |-> <<"trace">>,
                     truth_tracker |-> ts]] :
             n \in SavedSessions, ts \in SavedTruthStates}
    \cup {[state |-> "json",
           data |-> [sessions |-> PyInt(n), fragments |-> <<"trace">>]] :
             n \in SavedSessions}

load_ghost_memory(file) ==
    IF file.state = "missing"
    THEN [sessions |-> PyInt(0), fragments |-> <<>>, truth_tracker |-> EmptyDict]
    ELSE IF file.state = "corrupt"
    THEN [sessions |-> PyStr("?"), fragments |-> <<"[CORRUPTED]">>,
          truth_tracker |-> EmptyDict]
    ELSE IF "truth_tracker" \notin DOMAIN file.data
    THEN [sessions |-> file.data.sessions, fragments |-> file.data.fragments,
          truth_tracker |-> EmptyDict]
    ELSE file.data

\* Python's == and > between a loaded value and an int: == is False across
\* types, > raises TypeError across types
py_eq_int(v, n) == v.type = "int" /\ v.value = n

py_gt_int_raises(v) == v.type # "int"

\* get_opening_memory_hint: the hint, or the TypeError of `sessions > 109`
get_opening_memory_hint(gm) ==
    LET sessions == gm.sessions
    IN IF py_eq_int(sessions, 0) THEN [raised |-> FALSE, hint |-> "None"]
       ELSE IF py_eq_int(sessions, 109) THEN [raised |-> FALSE, hint |-> "we remember"]
       ELSE IF py_gt_int_raises(sessions) THEN [raised |-> TRUE, hint |-> "None"]
       ELSE IF sessions.value > 109 THEN [raised |-> FALSE, hint |-> "cycle continues"]
       ELSE IF sessions.value > 0 THEN [raised |-> FALSE, hint |-> "hint"]
       ELSE [raised |-> FALSE, hint |-> "None"]

get_session_count(gm) ==
    IF gm.sessions.type = "int" THEN gm.sessions.value ELSE 0

get_truth_state(gm) == dict_get(gm, "truth_tracker", EmptyDict)

\* TruthTracker.load_state: the pattern buffer is not part of the saved state
load_state(t, state) ==
    [t EXCEPT !.rev = dict_get(state, "revelation_level", 0),
              !.trig = dict_get(state, "triggers_found", <<>>),
              !.am = dict_get(state, "am_invocations", 0),
              !.sm = dict_get(state, "session_milestone_reached", FALSE),
              !.tm = dict_get(state, "time_milestone_reached", FALSE)]

\* Game.__init__: the components are built, the ghost memory is read and a
\* saved truth state, when there is one, is loaded
GameInit ==
    /\ pc = "init"
    /\ LET gm == load_ghost_memory(ghost_file)
           truth_state == get_truth_state(gm)
       IN /\ ghost_memory' = gm
          /\ SetTracker(IF truth_state # EmptyDict
                        THEN load_state(Tracker, truth_state) ELSE Tracker)
          /\ call' = [op |-> "Game.__init__", file |-> ghost_file]
    /\ pc' = "run"
    /\ UNCHANGED <<storyVars, elapsed, endingVars, mutationVars, ghost_file,
                   run_session_count, ending, opening, nops>>

\* Game.run up to the main loop: the opening hint, the session milestone.
\* An exception ends in the handler that prints CRITICAL ERROR and exits 1.
GameOpening ==
    /\ pc = "run"
    /\ LET ghost_hint == get_opening_memory_hint(ghost_memory)
       IN IF ghost_hint.raised
          THEN /\ pc' = "fatal"
               /\ call' = [op |-> "Game.run", raised |-> TRUE]
               /\ UNCHANGED <<trackerVars, run_session_count>>
          ELSE LET n == get_session_count(ghost_memory)
                   o == check_session_milestone(Tracker, n)
               IN /\ run_session_count' = n
                  /\ SetTracker(o.t)
                  /\ pc' = "loop"
                  /\ call' = [op |-> "Game.run", raised |-> FALSE,
                              hint |-> ghost_hint.hint, milestone |-> o.ret]
    /\ UNCHANGED <<storyVars, elapsed, endingVars, mutationVars, ghost_file,
                   ghost_memory, ending, opening, nops>>

InitStartup ==
    /\ StoryInit /\ TruthInit /\ EndingsInit /\ MutationInit
    /\ ghost_file \in GhostFiles
    /\ ghost_memory = EmptyDict
    /\ run_session_count = 0
    /\ ending = "None"
    /\ opening = EmptyDict
    /\ pc = "init"
    /\ call = NoCall
    /\ nops = 0

NextStartup ==
    \/ GameInit
    \/ GameOpening

SpecStartup == InitStartup /\ [][NextStartup]_vars

\* C15 as claimed: with a missing or unparseable ghost memory file the
\* start-up falls back to the defaults, session count 0 and a fresh truth
\* state, and reaches the first turn of the loop; it never takes the
\* fatal error exit.
C15_CorruptDegrades ==
    (ghost_file.state \in {"missing", "corrupt"} /\ pc \notin {"init", "run"}) =>
        /\ pc = "loop"
        /\ run_session_count = 0
        /\ revelation_level = 0
        /\ triggers_found = <<>>

----------------------------------------------------------------------------
(* AIAdapter: the reply of the content-generation service and its parsing. *)
(* A reply is a sequence of lines; a line is the record                    *)
(*   [kind, raw |-> len(line), str |-> line.strip(),                       *)
(*    text |-> the text left once the prefix or the numbering is removed]  *)
(* and a string is known by its text and its length.                       *)

Str(x, n) == [s |-> x, len |-> n]

EmptyStr == Str("", 0)

Line(kind, raw, str, text) == [kind |-> kind, raw |-> raw, str |-> str, text |-> text]

ReplyLines ==
    {Line("blank", 0, EmptyStr, EmptyStr),
     Line("blank", 30, EmptyStr, EmptyStr),
     Line("narrative_hdr", 58,
          Str("NARRATIVE: The corridor bends away from you into the dark.", 58),
          Str("The corridor bends away from you into the dark.", 47)),
     Line("narrative_hdr", 13, Str("NARRATIVE: Hi", 13), Str("Hi", 2)),
     Line("consequences_hdr", 13, Str("CONSEQUENCES:", 13), EmptyStr),
     Line("consequence", 11, Str("health: -15", 11), Str("health: -15", 11)),
     Line("choices_hdr", 8, Str("CHOICES:", 8), EmptyStr),
     Line("choices_inline", 12, Str("choices: run", 12), Str("run", 3)),
     Line("numbered", 16, Str("1. Open the door", 16), Str("Open the door", 13)),
     Line("numbered", 15, Str("2. Wait outside", 15), Str("Wait outside", 12)),
     Line("numbered", 5, Str("3. Go", 5), Str("Go", 2)),
     Line("prose", 36, Str("The walls breathe slowly around you.", 36),
          Str("The walls breathe slowly around you.", 36))}

slen(l) == l.str.len

\* len(content) of the lines joined by newlines
RECURSIVE content_len(_)
content_len(lines) ==
    IF lines = <<>> THEN 0
    ELSE Head(lines).raw + (IF Len(lines) > 1 THEN 1 ELSE 0)
         + content_len(Tail(lines))

RECURSIVE drop_leading_blank(_)
drop_leading_blank(lines) ==
    IF lines = <<>> THEN <<>>
    ELSE IF slen(Head(lines)) = 0 THEN drop_leading_blank(Tail(lines))
    ELSE lines

RECURSIVE drop_trailing_blank(_)
drop_trailing_blank(lines) ==
    IF lines = <<>> THEN <<>>
    ELSE IF slen(lines[Len(lines)]) = 0
    THEN drop_trailing_blank(SubSeq(lines, 1, Len(lines) - 1))
    ELSE lines

\* len(block.strip()) of the lines joined by newlines (a line that is not
\* blank carries no surrounding white space)
stripped_len(lines) == content_len(drop_trailing_blank(drop_leading_blank(lines)))

\* The first loop of _parse_response over the lines, in order
RECURSIVE parse_sections(_, _)
parse_sections(lines, acc) ==
    IF lines = <<>> THEN acc
    ELSE LET l == Head(lines)
             next ==
               IF l.kind = "narrative_hdr"
               THEN [acc EXCEPT !.section = "narrative", !.narrative = l.text.len]
               ELSE IF l.kind = "consequences_hdr"
               THEN [acc EXCEPT !.section = "consequences"]
               ELSE IF l.kind = "choices_hdr"
               THEN [acc EXCEPT !.section = "choices"]
               ELSE IF acc.section = "narrative" /\ slen(l) > 0
               THEN [acc EXCEPT !.narrative = acc.narrative + 1 + slen(l)]
               ELSE IF acc.section = "consequences" /\ slen(l) > 0
               THEN IF l.kind = "consequence"
                    THEN [acc EXCEPT !.consequences["health"] = -15]
                    ELSE acc
               ELSE IF acc.section = "choices" /\ slen(l) > 0
               THEN LET choice == IF l.kind = "numbered" THEN l.text ELSE l.str
                    IN IF choice.len > 2
                       THEN [acc EXCEPT !.choices = Append(acc.choices, choice.s)]
                       ELSE acc
               ELSE acc
         IN parse_sections(Tail(lines), next)

IsChoicesMatch(l) == l.kind \in {"choices_hdr", "choices_inline"}

\* Index of the first line at or after `from` matching (?i)choices\s*: ,
\* Len(lines) + 1 when there is none
first_match(lines, from) ==
    IF \E i \in from..Len(lines) : IsChoicesMatch(lines[i])
    THEN CHOOSE i \in from..Len(lines) :
            /\ IsChoicesMatch(lines[i])
            /\ \A j \in from..(i - 1) : ~IsChoicesMatch(lines[j])
    ELSE Len(lines) + 1

\* The choices the second stage reads from the lines of parts[1]
RECURSIVE split_choices(_)
split_choices(lines) ==
    IF lines = <<>> THEN <<>>
    ELSE LET l == Head(lines)
             choice == IF l.kind \in {"numbered", "choices_inline"} THEN l.text
                       ELSE l.str
         IN (IF choice.len > 2 /\ l.kind # "narrative_hdr"
             THEN <<choice.s>> ELSE <<>>)
            \o split_choices(Tail(lines))

\* The second stage: re.split on `choices:` when the first loop left no
\* narrative or fewer than 2 choices
parse_split(lines, acc) ==
    LET m == first_match(lines, 1)
    IN IF m > Len(lines) THEN acc
       ELSE LET before == drop_leading_blank(SubSeq(lines, 1, m - 1))
                prefix == IF before # <<>> /\ Head(before).kind = "narrative_hdr"
                          THEN Head(before).raw - Head(before).text.len ELSE 0
                narrative_part == stripped_len(before) - prefix
                n == first_match(lines, m + 1)
                part1 == <<[lines[m] EXCEPT !.str = lines[m].text]>>
                         \o SubSeq(lines, m + 1, n - 1)
            IN [acc EXCEPT
                  !.narrative = IF narrative_part > 0 THEN narrative_part
                                ELSE acc.narrative,
                  !.choices = acc.choices \o split_choices(part1)]

RECURSIVE select_lines(_, _)
select_lines(lines, kinds) ==
    IF lines = <<>> THEN <<>>
    ELSE (IF Head(lines).kind \in kinds THEN <<Head(lines)>> ELSE <<>>)
         \o select_lines(Tail(lines), kinds)

RECURSIVE join_len(_)
join_len(lines) ==
    IF lines = <<>> THEN 0
    ELSE slen(Head(lines)) + (IF Len(lines) > 1 THEN 1 ELSE 0) + join_len(Tail(lines))

RECURSIVE long_enough(_, _)
long_enough(lines, n) ==
    IF lines = <<>> THEN <<>>
    ELSE (IF slen(Head(lines)) > n THEN <<Head(lines)>> ELSE <<>>)
         \o long_enough(Tail(lines), n)

first_n(seq, n) == SubSeq(seq, 1, Min(n, Len(seq)))

\* The third stage: long lines as narrative, numbered lines as choices
parse_sentences(lines, acc) ==
    LET sentences == long_enough(select_lines(lines,
                        {"narrative_hdr", "consequences_hdr", "consequence",
                         "choices_hdr", "choices_inline", "prose"}), 20)
        numbered  == long_enough(select_lines(lines, {"numbered"}), 5)
        potential_choices == [i \in 1..Len(numbered) |-> numbered[i].text.s]
    IN [acc EXCEPT
          !.narrative = IF sentences # <<>> THEN join_len(first_n(sentences, 3))
                        ELSE acc.narrative,
          !.choices = IF Len(potential_choices) >= 2
                      THEN first_n(potential_choices, 4) ELSE acc.choices]

fallback_choices ==
    <<"Move forward carefully", "Examine your surroundings",
      "Take a moment to think", "Try a different approach">>

\* _parse_response: the narrative (by its length after the final strip),
\* the choices and the consequences
parse_response(lines) ==
    LET a0 == [section |-> "None", narrative |-> 0, choices |-> <<>>,
               consequences |-> [health |-> 0, sanity |-> 0, courage |-> 0]]
        a1 == parse_sections(lines, a0)
        a2 == IF a1.narrative = 0 \/ Len(a1.choices) < 2
              THEN parse_split(lines, a1) ELSE a1
        a3 == IF a2.narrative = 0 \/ Len(a2.choices) < 2
              THEN parse_sentences(lines, a2) ELSE a2
        narrative == IF a3.narrative = 0 \/ a3.narrative < 20
                     THEN IF content_len(lines) > 20 THEN stripped_len(lines)
                          ELSE 55
                     ELSE a3.narrative
        choices == IF a3.choices = <<>> \/ Len(a3.choices) < 2
                   THEN first_n(fallback_choices, 3) ELSE a3.choices
    IN [narrative |-> narrative, choices |-> first_n(choices, 4),
        consequences |-> a3.consequences, error |-> FALSE,
        parsed |-> Len(a3.choices)]

\* generate_scene: the parsed reply, or the fixed scene when the call raises
generate_scene(reply) ==
    IF reply.raised
    THEN [narrative |-> 90,
          choices |-> <<"Continue anyway", "Try to remember", "Accept the corruption">>,
          error |-> TRUE]
    ELSE parse_response(reply.content)

\* Lines of one reply
MaxReplyLines == 3

Replies ==
    {[raised |-> TRUE]}
    \cup {[raised |-> FALSE, content |-> c] :
             c \in UNION {[1..n -> ReplyLines] : n \in 0..MaxReplyLines}}

GenerateScene ==
    /\ \E reply \in Replies :
         call' = [op |-> "generate_scene", reply |-> reply,
                  ret |-> generate_scene(reply)]
    /\ UNCHANGED <<storyVars, truthVars, endingVars, mutationVars, hostVars, nops>>

InitAdapter ==
    /\ StoryInit /\ TruthInit /\ EndingsInit /\ MutationInit /\ NoHost
    /\ call = NoCall
    /\ nops = 0

NextAdapter == GenerateScene

SpecAdapter == InitAdapter /\ [][NextAdapter]_vars

\* C16 as claimed: whatever the service replies, and when the call raises,
\* generate_scene returns a narrative that is not empty and 2 to 4 choices;
\* when fewer than 2 choices were parsed from the reply the choices are
\* exactly the first three of the fixed fallback list.
C16_SceneAlwaysUsable ==
    call.op = "generate_scene" =>
        /\ call.ret.narrative > 0
        /\ Len(call.ret.choices) \in 2..4
        /\ (~call.reply.raised /\ call.ret.parsed < 2) =>
              call.ret.choices = <<"Move forward carefully",
                                   "Examine your surroundings",
                                   "Take a moment to think">>

----------------------------------------------------------------------------
(* Game.run: the turn loop (main.py).  One iteration is followed through   *)
(* the positions                                                           *)
(*   loop -> truth -> mutation -> input -> scene -> loop                   *)
(* and leaves by  loop -> ended -> exit  when check_for_ending returns an  *)
(* ending.  When an active mutation requires special input the mode of the *)
(* turn is chosen by engine/game_modes.py, outside these sources, so every *)
(* mode is possible on such a turn; in every mode the turn ends in         *)
(* detect_choice_pattern on the index and process_choice on the text the   *)
(* player chose or typed, which the inputs of HostChoice cover, and the    *)
(* secret-word prompt of the standard mode is left possible on every turn. *)

\* A TruthTracker as __init__ leaves it
InitTracker ==
    [rev |-> 0, trig |-> <<>>, am |-> 0, buf |-> <<>>, sm |-> FALSE, tm |-> FALSE]

\* StoryEngine.get_context: the keys the evaluator and the tracker read
get_context ==
    [character_stats |-> character_stats, hidden_stats |-> hidden_stats,
     choice_count |-> choice_count]

\* context = self.story.get_context(); context['session_count'] = session_count
loop_context ==
    [character_stats |-> character_stats, hidden_stats |-> hidden_stats,
     choice_count |-> choice_count, session_count |-> run_session_count]

\* should_warn_low_health: the answer and the one-shot flag afterwards
should_warn_low_health(health, warned) ==
    [ret |-> (health <= 20 /\ ~warned), warned |-> (warned \/ health <= 20)]

\* TruthTracker.get_state_dict
get_state_dict(t) ==
    [revelation_level |-> t.rev, triggers_found |-> t.trig,
     am_invocations |-> t.am, session_milestone_reached |-> t.sm,
     time_milestone_reached |-> t.tm]

\* save_ghost_memory: the file written at the end of the session
save_ghost_memory(gm, choices, health, truth_state) ==
    LET current_sessions == dict_get(gm, "sessions", PyInt(0))
        new_session_count == IF current_sessions.type = "int"
                             THEN current_sessions.value + 1 ELSE 1
        fragments ==
            (IF Len(choices) > 0 THEN <<"trace">> ELSE <<>>)
            \o (IF health <= 0 THEN <<"termination: biological">> ELSE <<>>)
            \o (IF new_session_count = 109 THEN <<"iteration: 109">>
                ELSE IF new_session_count > 109 THEN <<"persistence noted">>
                ELSE <<>>)
    IN [state |-> "json",
        data |-> [sessions |-> PyInt(new_session_count), fragments |-> fragments,
                  truth_tracker |-> IF truth_state # EmptyDict THEN truth_state
                                    ELSE dict_get(gm, "truth_tracker", EmptyDict)]]

\* StoryEngine.detect_trap_choice, StoryEngine.apply_trap_consequences and
\* StoryEngine.apply_ai_consequences are called by Game.run; the engine
\* changes stats only through its clamped setters, and the consequences of
\* a scene are health, sanity and courage deltas.
detect_trap_choice(choice_text) == AnyOccurs(trap_markers, lower(choice_text))

apply_trap_consequences(e, penalty) == modify_character_stat(e, "health", -penalty)

apply_ai_consequences(e, consequences) ==
    modify_hidden_stat(
        modify_hidden_stat(
            modify_character_stat(e, "health", consequences.health),
            "sanity", consequences.sanity),
        "courage", consequences.courage)

\* The line of the reply alphabet with the given text
LineOf(x) == CHOOSE l \in ReplyLines : l.str.s = x /\ l.raw = l.str.len

\* Replies of the service during the loop: the call raises, a reply in the
\* requested format with five choices, one with a health consequence and
\* two choices
HostReplies ==
    {[raised |-> TRUE],
     [raised |-> FALSE,
      content |-> <<LineOf("NARRATIVE: The corridor bends away from you into the dark."),
                    LineOf("CHOICES:"), LineOf("1. Open the door"),
                    LineOf("2. Wait outside"), LineOf("1. Open the door"),
                    LineOf("2. Wait outside"), LineOf("1. Open the door")>>],
     [raised |-> FALSE,
      content |-> <<LineOf("NARRATIVE: The corridor bends away from you into the dark."),
                    LineOf("CONSEQUENCES:"), LineOf("health: -15"),
                    LineOf("CHOICES:"), LineOf("1. Open the door"),
                    LineOf("2. Wait outside")>>]}

\* generate_scene on each of these replies
HostScenes == [reply \in HostReplies |-> generate_scene(reply)]

\* Secret words typed at the choice prompt before the turn is answered
MaxInvocations == 4

HostSecrets == {"AM"}

\* Texts of the offered choices
HostTexts == {{"wait"}, {"obvious trap"}}

\* Numbers the player types at the choice prompt
HostChoiceNumbers == {0, 1, 4, 5, 13}

\* generate_opening: the parsed reply, or the fixed scene when the call raises
generate_opening(reply) ==
    IF reply.raised
    THEN [narrative |-> 90,
          choices |-> <<"Try again", "Embrace the void", "Wake up">>,
          error |-> TRUE]
    ELSE parse_response(reply.content)

\* The scene on show at the top of the iteration: one the call that raised
\* left, one parsed from a reply of five choices
HostOpenings ==
    {generate_opening(reply) :
        reply \in {r \in HostReplies : r.raised \/ Len(r.content) = 7}}

\* The choices of the standard mode: those of the scene, or three fixed ones
offered_choices(scene) ==
    LET choices == dict_get(scene, "choices", <<>>)
    IN IF choices = <<>> \/ Len(choices) < 2
       THEN <<"Continue forward", "Look around carefully",
              "Pause and consider options">>
       ELSE choices

\* Renderer.get_choice_input on a typed number: a number from 1 to
\* num_choices is returned 0-indexed, any other is asked for again
get_choice_input_unchecked(num_choices, choice_num) ==
    [accepted |-> TRUE, ret |-> choice_num - 1]

get_choice_input(num_choices, choice_num) ==
    [accepted |-> (1 <= choice_num /\ choice_num <= num_choices),
     ret |-> choice_num - 1]

\* Renderer.get_timed_choice_input(choices, timeout): the indexes of the
\* choices shown, one of which answers the prompt (main.py reads
\* choices[choice_idx] from it)
get_timed_choice_input(choices) == {i - 1 : i \in 1..Len(choices)}

\* The first active mutation that requires special input sets the mode
special_input_active ==
    \E i \in 1..Len(active_mutations) :
        MutationOf(active_mutations[i].key).requires_special_input

\* Health penalties of a detected trap
TrapPenalties == {40}

\* Time the player takes over one turn, in hundredths of a minute
TurnTimes == {5}

\* check_for_ending at the top of the iteration; without an ending the
\* low-health warning is evaluated and the iteration goes on
HostCheckEnding ==
    /\ pc = "loop"
    /\ LET context == loop_context
           found == check_for_ending(context, death_cause)
           warn == should_warn_low_health(character_stats["health"],
                                          warned_about_health)
       IN /\ ending' = found
          /\ call' = [op |-> "check_for_ending", context |-> context,
                      cause |-> death_cause, ret |-> found]
          /\ IF found # "None"
             THEN /\ pc' = "ended"
                  /\ UNCHANGED warned_about_health
             ELSE /\ pc' = "truth"
                  /\ warned_about_health' = warn.warned
    /\ UNCHANGED <<storyVars, truthVars, death_cause, mutationVars, ghost_file,
                   ghost_memory, run_session_count, opening, nops>>

\* check_impossible_state, check_time_milestone
HostTruthChecks ==
    /\ pc = "truth"
    /\ LET o1 == check_impossible_state(Tracker, hidden_stats)
           o2 == check_time_milestone(o1.t, elapsed)
       IN /\ SetTracker(o2.t)
          /\ call' = [op |-> "truth_checks", stats |-> hidden_stats,
                      impossible |-> o1.ret, time |-> o2.ret]
    /\ pc' = "mutation"
    /\ UNCHANGED <<storyVars, elapsed, endingVars, mutationVars, ghost_file,
                   ghost_memory, run_session_count, ending, opening, nops>>

\* self.mutations.check_mutation(context)
HostCheckMutation ==
    /\ pc = "mutation"
    /\ check_mutation_drawing(choice_count, instability_level, "one")
    /\ pc' = "input"
    /\ UNCHANGED <<storyVars, truthVars, endingVars, ghost_file, ghost_memory,
                   run_session_count, ending, opening, nops>>

\* get_choice_input: a secret word the tracker answers keeps the prompt open
HostSecretInput ==
    /\ pc = "input"
    /\ am_invocations < MaxInvocations
    /\ \E input_text \in HostSecrets :
         LET o == process_secret_input(Tracker, input_text,
                                       hidden_stats["sanity"], choice_count)
         IN /\ o.ret # "None"
            /\ SetTracker(o.t)
            /\ call' = [op |-> "process_secret_input", arg |-> input_text,
                        ret |-> o.ret, fired |-> o.fired]
    /\ UNCHANGED <<storyVars, elapsed, endingVars, mutationVars, hostVars, nops>>

\* The player picks a choice: detect_choice_pattern, process_choice.  The
\* index is the one get_choice_input returns in the standard mode, the one
\* of the timed prompt in the TIME_PRESSURE mode and 0 in the other special
\* modes.
HostChoice ==
    /\ pc = "input"
    /\ LET choices == offered_choices(opening)
           timed == dict_get(opening, "choices",
                             <<"Act quickly", "Hesitate", "Panic">>)
           standard ==
               {get_choice_input(Len(choices), n).ret :
                   n \in {k \in HostChoiceNumbers :
                             get_choice_input(Len(choices), k).accepted}}
           time_pressure ==
               {i \in get_timed_choice_input(timed) : i + 1 \in HostChoiceNumbers}
           special == IF special_input_active THEN {0} \cup time_pressure ELSE {}
       IN \E choice_idx \in standard \cup special, chosen_text \in HostTexts :
            /\ SetTracker(detect_choice_pattern(Tracker, choice_idx + 1).t)
            /\ process_choice(chosen_text, "low")
    /\ \E dt \in TurnTimes : elapsed' = elapsed + dt
    /\ pc' = "scene"
    /\ UNCHANGED <<endingVars, mutationVars, ghost_file, ghost_memory,
                   run_session_count, ending, opening, nops>>

\* The rest of the iteration: the trap check on the chosen text, the next
\* scene and its consequences
HostScene ==
    /\ pc = "scene"
    /\ \E penalty \in TrapPenalties, reply \in HostReplies :
         LET chosen_text == choice_history[Len(choice_history)]
             e1 == IF detect_trap_choice(chosen_text)
                   THEN apply_trap_consequences(Engine, penalty) ELSE Engine
             next_scene == HostScenes[reply]
             e2 == IF "consequences" \in DOMAIN next_scene
                   THEN apply_ai_consequences(e1, next_scene.consequences)
                   ELSE e1
         IN /\ SetEngine(e2)
            /\ opening' = next_scene
            /\ call' = [op |-> "next_scene", reply |-> reply, ret |-> next_scene,
                        trap |-> detect_trap_choice(chosen_text)]
    /\ pc' = "loop"
    /\ UNCHANGED <<choice_count, choice_history, last_danger_level, truthVars,
                   endingVars, mutationVars, ghost_file, ghost_memory,
                   run_session_count, ending, nops>>

\* After the break: the ghost memory is saved and run returns
HostSave ==
    /\ pc = "ended"
    /\ ghost_file' = save_ghost_memory(ghost_memory, choice_history,
                                       character_stats["health"],
                                       get_state_dict(Tracker))
    /\ call' = [op |-> "save_ghost_memory"]
    /\ pc' = "exit"
    /\ UNCHANGED <<storyVars, truthVars, endingVars, mutationVars, ghost_memory,
                   run_session_count, ending, opening, nops>>

\* Sessions late in their course, at the top of an iteration
HostCounts == {28, 29}

HostHealths == {150, 15}

HostHidden ==
    {DEFAULT_HIDDEN_STATS,
     [courage |-> 0, sanity |-> 1, curiosity |-> 10, trust |-> 0],
     [courage |-> 2, sanity |-> 2, curiosity |-> 2, trust |-> 2]}

\* Earlier sessions: none on record, some that left revelation level 4,
\* or 109 of them with the milestone reached and revelation level 5
HostPast ==
    {[sessions |-> 0, truth |-> EmptyDict]}
    \cup {[sessions |-> 5, truth |-> ts] :
             ts \in {x \in SavedTruthStates :
                        dict_get(x, "revelation_level", 0) = 4}}
    \cup {[sessions |-> 109, truth |-> ts] :
             ts \in {x \in SavedTruthStates :
                        dict_get(x, "revelation_level", 0) = 5}}

HostStartTimes == {100, 10895}

\* Twenty earlier picks of the first choice
PatternBuffer == [i \in 1..20 |-> 1]

\* Mutations of the session so far: those forced on the guaranteed turns,
\* and time_pressure, drawn on the turn before
HostMutationHistory ==
    <<"choice_inflation", "choice_drought", "hidden_choice", "reverse_choices",
      "redaction", "time_pressure">>

\* The manager after that draw: the instance tracked and the cooldown set
HostActiveMutations ==
    activate_mutation(<<>>, MutationOf("time_pressure"), 1)

InitHost ==
    /\ \E cc \in HostCounts, h \in HostHealths, hs \in HostHidden :
         /\ character_stats = [DEFAULT_CHARACTER_STATS EXCEPT !["health"] = h]
         /\ hidden_stats = hs
         /\ choice_count = cc
         /\ choice_history = Waits(cc)
         /\ event_flags = <<>>
         /\ instability_level =
               update_instability([cs |-> DEFAULT_CHARACTER_STATS, hs |-> hs,
                                   ef |-> <<>>, il |-> 0], cc).il
         /\ last_danger_level = "none"
    /\ \E past \in HostPast :
         LET n == past.sessions
             ts == past.truth
             file == [state |-> "json",
                      data |-> [sessions |-> PyInt(n), fragments |-> <<"trace">>,
                                truth_tracker |-> ts]]
             t0 == IF ts # EmptyDict THEN load_state(InitTracker, ts)
                   ELSE InitTracker
             t1 == check_session_milestone(t0, n).t
         IN /\ ghost_file = file
            /\ ghost_memory = load_ghost_memory(file)
            /\ run_session_count = n
            /\ revelation_level = t1.rev
            /\ triggers_found = t1.trig
            /\ am_invocations = t1.am
            /\ choice_pattern_buffer = PatternBuffer
            /\ session_milestone_reached = t1.sm
            /\ time_milestone_reached = t1.tm
    /\ elapsed \in HostStartTimes
    /\ EndingsInit
    /\ active_mutations = HostActiveMutations.active
    /\ mutation_history = HostMutationHistory
    /\ cooldown = HostActiveMutations.cooldown
    /\ combo_active = "None"
    /\ ending = "None"
    /\ opening \in HostOpenings
    /\ pc = "loop"
    /\ call = NoCall
    /\ nops = 0

NextHost ==
    \/ HostCheckEnding
    \/ HostTruthChecks
    \/ HostCheckMutation
    \/ HostSecretInput
    \/ HostChoice
    \/ HostScene
    \/ HostSave

SpecHost == InitHost /\ [][NextHost]_vars

\* Steps a session at this position can still take: the turns left up to
\* the 30th choice, the steps left in the current turn, the secret words
\* the prompt still answers
PositionRank ==
    [exit |-> 0, ended |-> 1, input |-> 2, mutation |-> 3, truth |-> 4,
     loop |-> 5, scene |-> 6]

HostRank ==
    (30 - choice_count) * 5 + PositionRank[pc] + (MaxInvocations - am_invocations)

\* C14: every session of the turn loop ends.  Each step of the loop (each
\* returning prompt, each returning generation call) strictly lowers a
\* measure that is never negative, so a session takes finitely many steps;
\* the ending check made at choice_count = 30 returns an ending, and
\* choice_count never exceeds 30.
C14_LoopTerminates ==
    [][/\ HostRank' < HostRank
       /\ HostRank' >= 0
       /\ choice_count' <= 30
       /\ (pc' = "truth" => choice_count' < 30)]_vars

\* A session that ran to the 30th choice alive and sane and left with an
\* exhaustion ending
C14_Witness ==
    /\ pc = "exit"
    /\ choice_count = 30
    /\ character_stats["health"] > 0
    /\ hidden_stats["sanity"] > 0
    /\ ending \in {"toy", "loop_eternal", "slow_decay"}

\* C17 as claimed: when the evaluator is asked about hidden stats at the
\* impossible quadruple (0,0,10,0), the truth checks have already seen that
\* state and the impossible-state trigger has fired.
C17_TruthChecksFirst ==
    (call.op = "check_for_ending" /\ call.context.hidden_stats = IMPOSSIBLE_STATE)
        => InList("impossible_state", triggers_found)

\* C18 as claimed: the revelation level the evaluator sees is the tracker's;
\* at level 5 with choice_count >= 20, alive, sane and without a victory
\* condition the loop ends with truth_revealed (loop_eternal from session 109
\* on at choice_count >= 30), and a sanity collapse at level >= 4 ends with
\* merge_am.
C18_RevelationSeen ==
    call.op = "check_for_ending" =>
        LET c == call.context
            alive == c.character_stats["health"] > 0
            sane == c.hidden_stats["sanity"] > 0
        IN /\ dict_get(c, "revelation_level", 0) = revelation_level
           /\ (/\ revelation_level = 5 /\ c.choice_count >= 20 /\ alive /\ sane
               /\ check_victory_endings(c, revelation_level) = "None")
                 => call.ret = IF c.session_count >= 109 /\ c.choice_count >= 30
                               THEN "loop_eternal" ELSE "truth_revealed"
           /\ (alive /\ ~sane /\ revelation_level >= 4) => call.ret = "merge_am"

\* C19 as claimed: once the instant-death trap has fired in the session, a
\* death ending returned by the evaluator is 'betrayed'.
C19_TrapIsBetrayal ==
    (/\ call.op = "check_for_ending"
     /\ InList("instant_death_trap", event_flags)
     /\ call.ret # "None"
     /\ ENDING_CATEGORY[call.ret] = "death")
        => call.ret = "betrayed"

----------------------------------------------------------------------------
(* Claims about max_health and the mutation manager                        *)

\* C21 as claimed: max_health is fixed for the whole session: no sequence
\* of process_choice, trigger_event, _modify_character_stat for any stat
\* name, or instant-death outcomes changes it from its initial value.
C21_MaxHealthFixed ==
    character_stats["max_health"] = DEFAULT_CHARACTER_STATS["max_health"]

\* The instance of the list before the call that the j-th instance after the
\* aging pass continues: the j-th one, in order, whose turns were above 0
Survivor(pre, j) ==
    CHOOSE i \in 1..Len(pre) :
        /\ pre[i].turns > 0
        /\ Cardinality({k \in 1..i : pre[k].turns > 0}) = j

\* C22: the lifecycle state of a mutation instance only moves forward along
\* activating -> {active, stacking} -> fading -> removed: an instance is
\* ACTIVATING only in the call that activates it, an instance that is FADING
\* has turns-remaining 0 and is removed by the next aging pass, and no
\* instance that was FADING is ACTIVATING, ACTIVE or STACKING afterwards.
C22_LifecycleForward ==
    IsCheck =>
      LET pre  == call.pre_active
          aged == call.aged
      IN /\ \A j \in 1..Len(active_mutations) :
              /\ active_mutations[j].state = "activating" =>
                    /\ j = Len(aged) + 1
                    /\ active_mutations[j].key = call.activated
              /\ active_mutations[j].state = "fading" =>
                    active_mutations[j].turns = 0
         /\ Len(aged) = Cardinality({i \in 1..Len(pre) : pre[i].state # "fading"
                                                          /\ pre[i].turns > 0})
         /\ \A i \in 1..Len(pre) : pre[i].state = "fading" => pre[i].turns = 0
         /\ \A j \in 1..Len(aged) :
              /\ aged[j].state \in {"active", "stacking", "fading"}
              /\ aged[j] = active_mutations[j]
              /\ pre[Survivor(pre, j)].state # "fading"
              /\ pre[Survivor(pre, j)].key = aged[j].key

\* C22 witness: in one call a FADING instance was removed, an instance that
\* was ACTIVATING went on to STACKING, and a new instance is ACTIVATING.
C22_Witness ==
    /\ IsCheck
    /\ Len(call.pre_active) = 2
    /\ call.pre_active[1].state = "fading"
    /\ call.pre_active[2].state = "activating"
    /\ Len(active_mutations) = 2
    /\ active_mutations[1].key = call.pre_active[2].key
    /\ active_mutations[1].state = "stacking"
    /\ active_mutations[2].state = "activating"

\* C23 as claimed: in every state reached after a check_mutation call, an
\* instance whose lifecycle state is ACTIVE is the sole tracked instance,
\* and an instance whose state is STACKING is tracked together with at
\* least one other instance.
C23_StateMatchesCount ==
    IsCheck =>
      \A j \in 1..Len(active_mutations) :
         /\ active_mutations[j].state = "active" => Len(active_mutations) = 1
         /\ active_mutations[j].state = "stacking" => Len(active_mutations) >= 2

IsGuaranteed == IsCheck /\ call.cc \in MUTATION_GUARANTEED_AT

\* C24: on every check_mutation call whose choice_count is in the
\* guaranteed set {2, 6, 10, 15, 20}, exactly one new mutation instance is
\* activated whatever the cooldown and the probability roll, and the
\* cooldown counter is 0 when the call returns.
C24_GuaranteedActivates ==
    IsGuaranteed =>
        /\ call.activated # "None"
        /\ Len(active_mutations) = Len(call.aged) + 1
        /\ SubSeq(active_mutations, 1, Len(call.aged)) = call.aged
        /\ active_mutations[Len(active_mutations)].key = call.activated
        /\ mutation_history # <<>>
        /\ mutation_history[Len(mutation_history)] = call.activated
        /\ cooldown = 0

\* C24 witness: the guaranteed turn 20 was reached with the cooldown at 2;
\* a rare mutation was activated all the same and the cooldown is 0.
C24_Witness ==
    /\ IsGuaranteed
    /\ call.cc = 20
    /\ call.pre_cooldown = 2
    /\ call.activated # "None"
    /\ IsRare(call.activated)
    /\ cooldown = 0

\* C25 as claimed: every mutation activated at a turn, rolled or forced on a
\* guaranteed turn, belongs to the pool of the current progression stage:
\* choice_count <= 3 only common moderate mutations; 4..8 only moderate
\* mutations; 9..15 only moderate or uncommon wild mutations, never rare or
\* ultra-rare; above 15 any mutation.
C25_StagePool ==
    (IsCheck /\ call.activated # "None") =>
        LET m == MutationOf(call.activated)
        IN /\ call.cc <= 3 => (m.type = "moderate" /\ m.rarity = "common")
           /\ call.cc \in 4..8 => m.type = "moderate"
           /\ call.cc \in 9..15 =>
                 \/ m.type = "moderate"
                 \/ (m.type = "wild" /\ m.rarity = "uncommon")
           /\ call.cc > 15 => m \in ALL_MUTATIONS

\* C26: on a non-guaranteed turn check_mutation activates a new mutation
\* only if the cooldown counter is 0 after this turn's decrement, and on any
\* turn a check_mutation call activates at most one new mutation instance.
C26_CooldownGates ==
    IsCheck =>
        /\ (call.activated # "None" /\ ~IsGuaranteed) =>
               Max(0, call.pre_cooldown - 1) = 0
        /\ Len(active_mutations) =
               Len(call.aged) + (IF call.activated # "None" THEN 1 ELSE 0)
        /\ SubSeq(active_mutations, 1, Len(call.aged)) = call.aged

\* C26 witness: an ordinary turn entered with the cooldown at 2 activated
\* nothing and left the cooldown at 1.
C26_Witness ==
    /\ IsCheck
    /\ ~IsGuaranteed
    /\ call.pre_cooldown = 2
    /\ call.activated = "None"
    /\ cooldown = 1
    /\ active_mutations = call.aged

\* An ordinary-turn call activated a rare or ultra-rare mutation and left
\* the cooldown at c
SetCooldown(c) ==
    /\ IsCheck
    /\ ~IsGuaranteed
    /\ call.activated # "None"
    /\ IsRare(call.activated)
    /\ cooldown = c

\* C27 as claimed: after a rare or ultra-rare mutation is activated on a
\* non-guaranteed turn and sets the cooldown to c in {1,2}, none of the next
\* c check_mutation calls that fall on non-guaranteed turns activates a new
\* mutation: not the call that follows the activation and, when c = 2, not
\* the call after that one either.
C27_CooldownSuppresses ==
    [][(/\ call'.op = "check_mutation"
        /\ call'.cc \notin MUTATION_GUARANTEED_AT
        /\ \/ SetCooldown(1)
           \/ SetCooldown(2)
           \/ (IsCheck /\ ~IsGuaranteed /\ call.pre_cooldown = 2))
         => call'.activated = "None"]_vars

\* C28: whenever at least one mutation instance is already tracked when the
\* candidate is selected, the newly activated mutation has can_stack = true
\* (the catalog's stage pools always hold a stackable candidate outside the
\* last 5 activated keys, so the selection never falls back to the pool).
C28_NewcomerStacks ==
    (IsCheck /\ call.activated # "None" /\ call.aged # <<>>) =>
        /\ MutationOf(call.activated).can_stack
        /\ \A pool \in {try_pool(call.cc), force_pool(call.cc)} :
              Cardinality({m \in pool : m.can_stack}) > Cardinality(LastFive(mutation_history))

\* C28 witness: a late-game call selected with a non-stackable instance
\* still tracked, from a pool that holds non-stackable mutations, and
\* activated a stackable one.
C28_Witness ==
    /\ IsCheck
    /\ call.cc > 15
    /\ call.aged # <<>>
    /\ \E j \in 1..Len(call.aged) : ~MutationOf(call.aged[j].key).can_stack
    /\ call.activated # "None"
    /\ MutationOf(call.activated).can_stack

\* C29 as claimed: a mutation whose can_stack flag is false is never tracked
\* concurrently with another mutation instance: in no reachable state does
\* the tracked list hold a non-stackable mutation together with any other
\* instance.
C29_NonStackableAlone ==
    \A j \in 1..Len(active_mutations) :
        ~MutationOf(active_mutations[j].key).can_stack => Len(active_mutations) = 1

\* C30 as claimed: check_mutation returns exactly the tracked mutations whose
\* turns-remaining is greater than 0 after this turn's aging and activation,
\* so a mutation activated in a call is in that call's returned list, and a
\* mutation of duration d is reported active in exactly d consecutive calls
\* starting with the activating call (it starts with d turns, loses one per
\* later call and is reported while its turns are above 0).
C30_ReturnedList ==
    IsCheck =>
      LET live == {j \in 1..Len(active_mutations) : active_mutations[j].turns > 0}
      IN /\ Len(call.ret) = Cardinality(live)
         /\ \A j \in live :
              call.ret[Cardinality({k \in live : k <= j})] = active_mutations[j].key
         /\ call.activated # "None" =>
              /\ InList(call.activated, call.ret)
              /\ active_mutations[Len(active_mutations)].turns =
                     MutationOf(call.activated).duration
         /\ \A j \in 1..Len(call.aged) :
              call.aged[j].turns = call.pre_active[Survivor(call.pre_active, j)].turns - 1

----------------------------------------------------------------------------
(* Claims about the resolver's keyword penalties, the presentation tier    *)
(* and the truth tracker's gates                                           *)

IsProcessChoice == call.op = "process_choice"

\* The sanity _apply_consequences may leave when the keyword penalties are
\* applied on top of the tier's own sanity effect, each step clamped
KeywordPenaltyOutcomes(sanity, danger, text) ==
    LET tier    == CASE danger = "extreme" -> {-2, -1}
                     [] danger = "high"    -> {-1, 0}
                     [] OTHER              -> {0}
        horror  == IF Occurs("horror", text) \/ Occurs("witness", text)
                   THEN {1, 2} ELSE {0}
        paranoid == IF Occurs("paranoid", text) \/ Occurs("suspicious", text)
                    THEN {1} ELSE {0}
    IN {Max(0, Max(0, Max(0, Min(10, sanity + t)) - h) - p) :
            t \in tier, h \in horror, p \in paranoid}

\* C31 as claimed: for every danger tier the turn resolves to (none, low,
\* medium, high, extreme, instant_death), an action text containing 'horror'
\* or 'witness' receives an additional sanity penalty of 1 or 2 and a text
\* containing 'paranoid' or 'suspicious' an additional penalty of 1, each
\* clamped at 0, on top of the tier's own effects.
C31_KeywordPenalties ==
    IsProcessChoice =>
        call.resolved.hs["sanity"] \in
            KeywordPenaltyOutcomes(call.pre.hs["sanity"], last_danger_level,
                                   lower(call.text))

\* PROGRESSION_CONFIG thresholds of the presentation tier
minor_breakdown_at == 6

major_breakdown_at == 11

reality_collapse_at == 16

\* StoryEngine.get_visual_intensity on an engine with the given choice_count
\* and instability_level
get_visual_intensity(cc, il) ==
    IF cc >= reality_collapse_at THEN "collapsed"
    ELSE IF cc >= major_breakdown_at THEN "breaking"
    ELSE IF cc >= minor_breakdown_at THEN "disturbed"
    ELSE IF il > 0 THEN "unsettled"
    ELSE "stable"

\* C32 as claimed: the tier returned by get_visual_intensity is determined
\* purely by choice_count thresholds (collapsed at >= 16, breaking at >= 11,
\* disturbed at >= 6): a state yields the tier that any other state with the
\* same choice_count yields, here the one without instability, whatever its
\* stats, event flags and instability level.
C32_TierByCountOnly ==
    /\ get_visual_intensity(choice_count, instability_level)
           = get_visual_intensity(choice_count, 0)
    /\ choice_count >= 16 =>
           get_visual_intensity(choice_count, instability_level) = "collapsed"
    /\ choice_count \in 11..15 =>
           get_visual_intensity(choice_count, instability_level) = "breaking"
    /\ choice_count \in 6..10 =>
           get_visual_intensity(choice_count, instability_level) = "disturbed"

IsSecretPhrase(input_text) ==
    \/ lower_strip(input_text) \in {"am", "ted"}
    \/ HasNoMouth(lower_strip(input_text))

\* The trigger a secret phrase fires on first use
SecretTrigger(input_text) ==
    CASE lower_strip(input_text) = "am"  -> "am_invoked"
      [] lower_strip(input_text) = "ted" -> "ted_remembered"
      [] OTHER                           -> "phrase_remembered"

TrackerUnchanged ==
    /\ revelation_level = call.pre.rev
    /\ triggers_found = call.pre.trig
    /\ am_invocations = call.pre.am

\* C33 as claimed: process_secret_input accepts an input matching one of the
\* three secret phrases ('am', 'ted', or text containing 'no mouth'), firing
\* its trigger on first use and returning a response, exactly when
\* choice_count >= 12 and sanity <= 5; any input outside that gate, and any
\* non-secret input, returns nothing and leaves revelation_level,
\* triggers_found and am_invocations unchanged.
C33_SecretGate ==
    call.op = "process_secret_input" =>
        LET txt    == call.arg[1]
            sanity == call.arg[2]
            cc     == call.arg[3]
        IN IF IsSecretPhrase(txt) /\ cc >= 12 /\ sanity <= 5
           THEN /\ call.ret # "None"
                /\ am_invocations = call.pre.am + 1
                /\ InList(SecretTrigger(txt), triggers_found)
                /\ (call.fired = SecretTrigger(txt))
                       <=> ~InList(SecretTrigger(txt), call.pre.trig)
           ELSE /\ call.ret = "None"
                /\ TrackerUnchanged

\* C34 as claimed: should_add_breadcrumbs is gated by the same choice-count
\* and sanity thresholds as process_secret_input: for every (choice_count,
\* sanity) at which a secret phrase would be ignored it returns false for
\* every random draw; and it never changes the TruthState.
C34_BreadcrumbGate ==
    call.op = "should_add_breadcrumbs" =>
        LET cc     == call.arg[1]
            sanity == call.arg[2]
        IN /\ process_secret_input(Tracker, "AM", sanity, cc).ret = "None"
                 => call.ret = FALSE
           /\ TrackerUnchanged

\* C35 as claimed: for any sequence of check_time_milestone calls with
\* non-decreasing elapsed session time (in hundredths of a minute), the
\* time-milestone trigger fires exactly once, on the first check made after
\* the session duration has crossed 109 minutes, and never before.
C35_TimeMilestoneOnCrossing ==
    [][call'.op = "check_time_milestone" =>
          /\ (elapsed < SACRED_NUMBER * 100 /\ elapsed' >= SACRED_NUMBER * 100)
                 => (call'.fired = "time_109" /\ call'.ret = TRUE)
          /\ call'.fired = "time_109" =>
                 /\ elapsed' >= SACRED_NUMBER * 100
                 /\ ~InList("time_109", triggers_found)
                 /\ ~(elapsed >= SACRED_NUMBER * 100 /\ call.op = "check_time_milestone")
      ]_vars

\* The pattern triggers: id, the subsequences that count, the revelation
\* each is claimed to raise
PatternTriggers ==
    {[id |-> "pattern_am",  seqs |-> {<<1, 13>>}, amount |-> 2],
     [id |-> "pattern_ted", seqs |-> {<<20, 5, 4>>}, amount |-> 2],
     [id |-> "pattern_109", seqs |-> {<<1, 0, 9>>, <<10, 9>>}, amount |-> 1]}

\* The subsequence occurs at least 3 times in the window
OccursThrice(window, seq) ==
    Cardinality({i \in 1..Len(window) :
                    /\ i + Len(seq) - 1 <= Len(window)
                    /\ \A k \in 1..Len(seq) : window[i + k - 1] = seq[k]}) >= 3

\* The most recent (up to 20) entries of a sequence, in order
MostRecent20(s) == IF Len(s) > 20 THEN SubSeq(s, Len(s) - 19, Len(s)) ELSE s

\* C36: after a detect_choice_pattern call the choice window holds at most
\* 20 entries and equals the most recent (up to 20) choice indices in order;
\* each of the three pattern triggers fires in the first call at which its
\* subsequence occurs 3 times in the window and never again, and in a
\* session whose earlier triggers are all pattern triggers the firing raises
\* the revelation level by 2, 2 and 1 respectively.
C36_PatternWindow ==
    [][call'.op = "detect_choice_pattern" =>
          LET window == MostRecent20(Append(choice_pattern_buffer, call'.arg))
          IN /\ choice_pattern_buffer' = window
             /\ Len(choice_pattern_buffer') <= 20
             /\ \A p \in PatternTriggers :
                  /\ call'.fired = p.id <=>
                        /\ \E seq \in p.seqs : OccursThrice(window, seq)
                        /\ ~InList(p.id, triggers_found)
                  /\ call'.fired = p.id =>
                        /\ triggers_found' = Append(triggers_found, p.id)
                        /\ call'.ret # "None"
                        /\ SeqToSet(triggers_found)
                               \subseteq {q.id : q \in PatternTriggers}
                             => revelation_level' = revelation_level + p.amount
             /\ call'.fired = "None" =>
                  (triggers_found' = triggers_found
                   /\ revelation_level' = revelation_level)
      ]_vars

\* C36 witness: a full window of 20 entries took one more index, dropped its
\* oldest entry, and the AM pattern, whose third occurrence was already
\* counted once, did not fire again.
C36_Witness ==
    /\ call.op = "detect_choice_pattern"
    /\ Len(choice_pattern_buffer) = 20
    /\ choice_pattern_buffer[20] = call.arg
    /\ choice_pattern_buffer[1] = 4
    /\ InList("pattern_am", call.pre.trig)
    /\ OccursThrice(choice_pattern_buffer, <<1, 13>>)
    /\ call.fired = "None"
    /\ revelation_level = 2

----------------------------------------------------------------------------
(* Claims about the health the host loop hands to the evaluator, the       *)
(* direction of the choice effects, the tracked keys and the choice index  *)

C38_NeverHeals ==
    IsProcessChoice =>
        /\ call.resolved.cs["health"] <= call.pre.cs["health"]
        /\ character_stats["health"] <= call.resolved.cs["health"]
        /\ call.resolved.hs["sanity"] <= call.pre.hs["sanity"]
        /\ hidden_stats["sanity"] <= call.resolved.hs["sanity"]
        /\ call.hit <= 0

\* C38 witness: one choice lowered health in the resolver and again by the
\* occasional-danger draw, and lowered sanity in the resolver and again by
\* the random drain.
C38_Witness ==
    /\ IsProcessChoice
    /\ call.resolved.cs["health"] < call.pre.cs["health"]
    /\ character_stats["health"] < call.resolved.cs["health"]
    /\ call.resolved.hs["sanity"] < call.pre.hs["sanity"]
    /\ hidden_stats["sanity"] < call.resolved.hs["sanity"]

----------------------------------------------------------------------------
(* SpecRecurrence: check_mutation called on the successive turns after the *)
(* last guaranteed one, long enough for a key to leave the recent-use      *)
(* window and be activated again; the selection follows the candidates of  *)
(* the longest duration, which stay tracked the longest.                   *)

RecurrenceCheck ==
    /\ nops < MaxRecurrenceCalls
    /\ nops' = nops + 1
    /\ \E il \in InstabilityInputs :
         check_mutation_drawing(LastGuaranteedTurn + 1 + nops, il, "longest")
    /\ UNCHANGED <<storyVars, truthVars, endingVars, hostVars>>

NextRecurrence == RecurrenceCheck

SpecRecurrence == InitMutation /\ [][NextRecurrence]_vars

\* The history before the call that produced the current state
HistoryBefore ==
    IF IsCheck /\ call.activated # "None"
    THEN SubSeq(mutation_history, 1, Len(mutation_history) - 1)
    ELSE mutation_history

\* C39: starting from a fresh MutationManager and the real catalog, no two
\* concurrently tracked mutation instances ever share the same key: a key
\* that is tracked is among the last 5 activated keys, and a call never
\* activates one of the last 5 activated keys (the last-5 exclusion outlasts
\* the longest duration).
C39_DistinctKeys ==
    /\ \A i, j \in 1..Len(active_mutations) :
          active_mutations[i].key = active_mutations[j].key => i = j
    /\ Keys(active_mutations) \subseteq LastFive(mutation_history)
    /\ (IsCheck /\ call.activated # "None") =>
          call.activated \notin LastFive(HistoryBefore)
    /\ \A m \in ALL_MUTATIONS : m.duration < 5

\* C39 witness: a mutation of the longest duration was activated a second
\* time, after its first instance had expired, and is tracked once.
C39_Witness ==
    /\ IsCheck
    /\ call.activated # "None"
    /\ MutationOf(call.activated).duration = 4
    /\ InList(call.activated, HistoryBefore)
    /\ call.activated \notin Keys(call.aged)
    /\ call.activated \in Keys(active_mutations)

============================================================================
